---- MODULE Spec2Model ----
(***************************************************************************)
(* A model of the slang runtime (index.ts): Option, Result, the            *)
(* unwrap().else() obligation with its deferred (microtask) check,         *)
(* expect(), atoms, the conversions of to(), match() and matchAll(), the   *)
(* zip family and safeTry().                                               *)
(*                                                                         *)
(* Spec is the caller and the host: synchronous frames of caller code (a   *)
(* task, or a microtask the caller queued) call the library on a few       *)
(* representative objects; between frames the host drains the microtask    *)
(* queue in FIFO order, and raises what a deferred check threw: at once    *)
(* when the check was queued by queueMicrotask, once the queue has drained *)
(* when it ran as a promise reaction. SpecCalls applies each call to every *)
(* object and every argument of the value universe and records what it     *)
(* returns. SpecConv does the same for the conversions, SpecMatch for      *)
(* match() and matchAll(); SpecAtoms is a caller that keeps the atoms and  *)
(* Options it makes and converts them. SpecZip evaluates one expression of *)
(* zip(), zipWith() and unzip(), SpecKeys matchAll() on two values;        *)
(* SpecTry is a caller of safeTry() and the host that settles the promise  *)
(* it returned; SpecMut is a caller that writes to the fields of the       *)
(* object it holds, SpecUnwraps one that calls unwrap() several times.     *)
(***************************************************************************)
EXTENDS Integers, Sequences, FiniteSets, TLC

VARIABLES
  objs,        \* the Options, Results, atoms (and promises of safeTry) made so
               \* far, in creation order
  handles,     \* one entry per unwrap() call: its closure (handled) and history
  microtasks,  \* the host's microtask queue (FIFO)
  running,     \* TRUE while a synchronous frame of caller code is executing
  uncaught,    \* failures of deferred checks raised on the host, in order
  last         \* the last library call of the current frame and its outcome

vars == <<objs, handles, microtasks, running, uncaught, last>>

\* ---------------------------------------------------------------- bounds
MaxObjs == 1
MaxHandles == 1
MaxUser == 1
MaxAtoms == 3
MaxInputs == 2
MaxLen == 2
MaxUnwraps == 2
MaxIndexKey == 2

\* ------------------------------------------------------ JavaScript values
\* A value is [t, s, n, mt]: its kind, its string, its number, and (objects
\* only) the kind of its `message` property ("none" when it has none).
V(t, s, n, mt) == [t |-> t, s |-> s, n |-> n, mt |-> mt]

Null == V("null", "", 0, "none")
Undefined == V("undefined", "", 0, "none")
Str(s) == V("str", s, 0, "none")
Num(n) == V("num", "", n, "none")
NaN == V("nan", "", 0, "none")
PosInf == V("inf", "", 0, "none")
NegInf == V("ninf", "", 0, "none")
Bool(b) == V("bool", "", IF b THEN 1 ELSE 0, "none")
EmptyArr == V("arr", "", 0, "none")
EmptyObj == V("obj", "", 0, "none")
ObjMsgStr(s) == V("obj", s, 0, "str")
ObjMsgNum(n) == V("obj", "", n, "num")
\* a function; s is its source text, which is what String(fn) gives
Fn == V("fn", "function () { return 1; }", 0, "none")

\* Symbol(d): a primitive symbol; s is its description, n its identity
Sym(d, id) == V("sym", d, id, "none")

\* Object(Symbol(d)): the wrapper object atom() returns (it carries to());
\* one wrapper per symbol, so n identifies both
SymObj(d, id) == V("symobj", d, id, "none")

\* new Date(n): an object whose valueOf() is the number n
DateObj == V("date", "", 0, "none")

\* Object(s): the wrapper object of a string
StrObj(s) == V("strobj", s, 0, "none")

\* new Error(m): an Error object; s is its message, n its identity
ErrorObj(m, id) == V("error", m, id, "none")

\* The value universe: what option(), Ok() and Err() are applied to.
Values ==
  { Null, Undefined, Str(""), Str("x"), NaN, PosInf, NegInf, Num(0),
    Bool(FALSE), EmptyArr, EmptyObj, ObjMsgStr("y"), ObjMsgNum(7), Fn,
    ErrorObj("boom", 1) }

\* typeof v
TypeOf(v) ==
  CASE v.t = "str" -> "string"
    [] v.t \in {"num", "nan", "inf", "ninf"} -> "number"
    [] v.t = "bool" -> "boolean"
    [] v.t = "undefined" -> "undefined"
    [] v.t = "fn" -> "function"
    [] v.t = "sym" -> "symbol"
    [] OTHER -> "object"

\* JavaScript's own truthiness (the `e &&` of formatError)
Truthy(v) ==
  ~ \/ v.t \in {"null", "undefined", "nan"}
    \/ (v.t = "str" /\ v.s = "")
    \/ (v.t = "num" /\ v.n = 0)
    \/ (v.t = "bool" /\ v.n = 0)

\* the left operand of `??` is null or undefined
Nullish(v) == v.t \in {"null", "undefined"}

\* "message" in e, for an object e: an object literal that has the field,
\* or an Error
HasMessage(v) == (v.t = "obj" /\ v.mt # "none") \/ v.t = "error"

\* e.message
GetMessage(v) ==
  CASE v.t = "error" -> Str(v.s)
    [] v.mt = "str" -> Str(v.s)
    [] v.mt = "num" -> Num(v.n)
    [] OTHER -> Undefined

\* String(v) throws a TypeError ("Cannot convert a Symbol value to a
\* string") for the wrapper object of a symbol
StringThrows(v) == v.t = "symobj"

\* String(v), for the values it returns on.  The text of a Date is that of
\* a host whose time zone is UTC.
StringOf(v) ==
  CASE v.t = "str" -> v.s
    [] v.t = "num" -> ToString(v.n)
    [] v.t = "bool" -> (IF v.n = 1 THEN "true" ELSE "false")
    [] v.t = "null" -> "null"
    [] v.t = "undefined" -> "undefined"
    [] v.t = "nan" -> "NaN"
    [] v.t = "inf" -> "Infinity"
    [] v.t = "ninf" -> "-Infinity"
    [] v.t = "arr" -> ""
    [] v.t = "obj" -> "[object Object]"
    [] v.t = "fn" -> v.s
    [] v.t = "sym" -> "Symbol(" \o v.s \o ")"
    [] v.t = "strobj" -> v.s
    [] v.t = "date" -> "Thu Jan 01 1970 00:00:00 GMT+0000 (Coordinated Universal Time)"
    [] v.t = "error" -> (IF v.s = "" THEN "Error" ELSE "Error: " \o v.s)

\* ------------------------------------------------------------- outcomes
\* What a call does: returns val, or throws an Error with message msg.
\* calls/arg: how often the fallback function was invoked, and with what.
Ret(v) == [outcome |-> "return", val |-> v, msg |-> "", calls |-> 0, arg |-> Undefined]
Throw(m) == [outcome |-> "throw", val |-> Undefined, msg |-> m, calls |-> 0, arg |-> Undefined]

\* A fallback passed to else(): a literal (fn = FALSE, the literal is ret), or
\* a function that returns ret or throws.
Lit(v) == [fn |-> FALSE, ret |-> v, throws |-> FALSE]
FnRet(v) == [fn |-> TRUE, ret |-> v, throws |-> FALSE]
FnThrow == [fn |-> TRUE, ret |-> Undefined, throws |-> TRUE]
Fallbacks ==
  {Lit(v) : v \in Values \ {Fn}} \cup {FnRet(v) : v \in Values} \cup {FnThrow}

\* fallback(a): the call of a fallback function with argument a
CallFn(fb, a) ==
  IF fb.throws
    THEN [Throw("fallback threw") EXCEPT !.calls = 1, !.arg = a]
    ELSE [Ret(fb.ret) EXCEPT !.calls = 1, !.arg = a]

\* ------------------------------------------------------------ Option core
\* a variant of isFalsy: JavaScript's own falsiness (!value)
isFalsyLoose(value) == ~Truthy(value)

\* isFalsy: the library's own classification of "absent-like" values
isFalsy(value) ==
  \/ value = Null
  \/ value = Undefined
  \/ value = Str("")
  \/ value.t = "nan"
  \/ value = PosInf
  \/ value = NegInf

\* Some(value): the frozen object, or the failure on a falsy value
Some(value) ==
  IF isFalsy(value)
    THEN Throw("Cannot wrap null, undefined, NaN, or empty string in Some")
    ELSE Ret([type |-> "Some", value |-> value, isSome |-> TRUE, isNone |-> FALSE])

None == [type |-> "None", isSome |-> FALSE, isNone |-> TRUE]

\* option(value): the fields of the returned object (its methods are the
\* operators below, bound to this object)
option(value) == IF isFalsy(value) THEN None ELSE Some(value).val

Ok(value) == [type |-> "Ok", value |-> value, isOk |-> TRUE, isErr |-> FALSE]

Err(error) == [type |-> "Err", error |-> error, isOk |-> FALSE, isErr |-> TRUE]

IsOption(o) == o.type \in {"Some", "None"}
IsResult(o) == o.type \in {"Ok", "Err"}

\* ------------------------------------------------------------ formatError
\* a variant of formatError without the message-field branch
formatErrorNoMessage(e, fallback) ==
  IF TypeOf(e) = "string" THEN e.s
  ELSE IF ~Nullish(fallback) THEN fallback.s ELSE StringOf(e)

formatError(e, fallback) ==
  IF TypeOf(e) = "string" THEN e.s
  ELSE IF Truthy(e) /\ TypeOf(e) = "object" /\ HasMessage(e)
    THEN StringOf(GetMessage(e))
  ELSE IF ~Nullish(fallback) THEN fallback.s ELSE StringOf(e)

\* ----------------------------------------------------------------- expect
\* a variant of optionExpect: msg || default in place of msg ?? default
optionExpectOr(opt, msg) ==
  IF opt.isSome THEN Ret(opt.value)
  ELSE Throw(IF Truthy(msg) THEN msg.s ELSE "Expected Some, got None")

optionExpect(opt, msg) ==
  IF opt.isSome THEN Ret(opt.value)
  ELSE Throw(IF ~Nullish(msg) THEN msg.s ELSE "Expected Some, got None")

OkExpect(ok, msg) == Ret(ok.value)

ErrExpect(err, msg) ==
  Throw(IF ~Nullish(msg) THEN msg.s
        ELSE formatError(err.error, Str("Expected Ok, got Err")))

\* ------------------------------------------------- the else() completions
\* Each yields the outcome of the call and the value it leaves in the
\* closure variable `handled` of its unwrap() call.
Done(res, h) == [res |-> res, handled |-> h]

\* a variant of optionElse: handled set only once the fallback was accepted
optionElseLateHandled(opt, fb, handled) ==
  IF opt.isSome THEN Done(Ret(opt.value), TRUE)
  ELSE LET result == IF fb.fn THEN CallFn(fb, Undefined) ELSE Ret(fb.ret)
       IN IF result.outcome = "throw" THEN Done(result, handled)
          ELSE IF option(result.val).isNone
            THEN Done([Throw("Fallback must be truthy")
                         EXCEPT !.calls = result.calls, !.arg = result.arg], handled)
          ELSE Done(result, TRUE)

\* a variant of optionElse: the fallback evaluated before the Some test
optionElseEager(opt, fb, handled) ==
  LET result == IF fb.fn THEN CallFn(fb, Undefined) ELSE Ret(fb.ret)
  IN IF result.outcome = "throw" THEN Done(result, TRUE)
     ELSE IF opt.isSome
       THEN Done([Ret(opt.value) EXCEPT !.calls = result.calls, !.arg = result.arg], TRUE)
     ELSE IF option(result.val).isNone
       THEN Done([Throw("Fallback must be truthy")
                    EXCEPT !.calls = result.calls, !.arg = result.arg], TRUE)
     ELSE Done(result, TRUE)

\* a variant of optionElse: the candidate validated by !result
optionElseLoose(opt, fb, handled) ==
  IF opt.isSome THEN Done(Ret(opt.value), TRUE)
  ELSE LET result == IF fb.fn THEN CallFn(fb, Undefined) ELSE Ret(fb.ret)
       IN IF result.outcome = "throw" THEN Done(result, TRUE)
          ELSE IF ~Truthy(result.val)
            THEN Done([Throw("Fallback must be truthy")
                         EXCEPT !.calls = result.calls, !.arg = result.arg], TRUE)
          ELSE Done(result, TRUE)

\* option(...).unwrap().else(fallback)
optionElse(opt, fb, handled) ==
  IF opt.isSome THEN Done(Ret(opt.value), TRUE)
  ELSE LET result == IF fb.fn THEN CallFn(fb, Undefined) ELSE Ret(fb.ret)
       IN IF result.outcome = "throw" THEN Done(result, TRUE)
          ELSE IF option(result.val).isNone
            THEN Done([Throw("Fallback must be truthy")
                         EXCEPT !.calls = result.calls, !.arg = result.arg], TRUE)
          ELSE Done(result, TRUE)

\* Ok(...).unwrap().else(fallback)
OkElse(ok, fb, handled) == Done(Ret(ok.value), TRUE)

\* a variant of ErrElse: the result validated as on the Option path
ErrElseChecked(err, fb, handled) ==
  LET result == IF fb.fn THEN CallFn(fb, err.error) ELSE Ret(fb.ret)
  IN IF result.outcome = "return" /\ isFalsy(result.val)
       THEN Done([Throw("Fallback must be truthy")
                    EXCEPT !.calls = result.calls, !.arg = result.arg], TRUE)
       ELSE Done(result, TRUE)

\* Err(...).unwrap().else(fallback)
ErrElse(err, fb, handled) ==
  Done(IF fb.fn THEN CallFn(fb, err.error) ELSE Ret(fb.ret), TRUE)

\* ------------------------------------------------- the deferred checks
\* a variant of optionCheck: reads handled and never throws (as Ok's does)
optionCheckSilent(handled) == Ret(Undefined)

\* the callback option().unwrap() hands to scheduleMicrotask
optionCheck(handled) == IF ~handled THEN Throw("Expected else") ELSE Ret(Undefined)

\* the callback Ok().unwrap() schedules: reads handled, never throws
OkCheck(handled) == Ret(Undefined)

\* a variant of ErrCheck: the Option path's fixed message
ErrCheckFixed(err, handled) ==
  IF ~handled THEN Throw("Expected else") ELSE Ret(Undefined)

\* the callback Err().unwrap() schedules
ErrCheck(err, handled) ==
  IF ~handled
    THEN Throw(formatError(err.error, Str("Expected Ok, got Err")))
    ELSE Ret(Undefined)

\* --------------------------------------------------------- method dispatch
\* The methods an object carries are those its constructor attached.
expectOf(o, msg) ==
  CASE IsOption(o) -> optionExpect(o, msg)
    [] o.type = "Ok" -> OkExpect(o, msg)
    [] OTHER -> ErrExpect(o, msg)

elseOf(o, fb, handled) ==
  CASE IsOption(o) -> optionElse(o, fb, handled)
    [] o.type = "Ok" -> OkElse(o, fb, handled)
    [] OTHER -> ErrElse(o, fb, handled)

checkOf(o, handled) ==
  CASE IsOption(o) -> optionCheck(handled)
    [] o.type = "Ok" -> OkCheck(handled)
    [] OTHER -> ErrCheck(o, handled)

\* ------------------------------------------------------------ scheduling
\* scheduleMicrotask(fn), qmt being typeof queueMicrotask === "function" on
\* the host at the time of the call: either way fn is appended to the host's
\* microtask queue, by queueMicrotask(fn) as a callback of its own, by
\* Promise.resolve().then(fn) as the reaction of a promise.  What fn throws
\* is raised at once in the first case; in the second it rejects the promise
\* then() returned, which nobody handles.
scheduleMicrotask(q, fn, qmt) ==
  Append(q, [fn EXCEPT !.via = IF qmt THEN "queueMicrotask" ELSE "promise"])

\* a variant of microtaskRuns: the callback may run inside the calling frame
microtaskRunsInline(run, q) == q # <<>>

\* The host runs the head of the queue only once the synchronous frame that
\* is executing has returned.
microtaskRuns(run, q) == ~run /\ q # <<>>

\* ------------------------------------------------------------- identity
\* Objects made by option() and atom() have identity: id numbers the call
\* that made them.  heap is the sequence of the objects made so far.
Max(S) == CHOOSE m \in S : \A k \in S : k <= m

\* x is a JavaScript value of the universe above (not an Option or Result)
IsJs(x) == "t" \in DOMAIN x

IdOf(x) ==
  IF IsJs(x) THEN (IF x.t \in {"sym", "symobj", "error"} THEN x.n ELSE 0)
  ELSE IF "id" \in DOMAIN x THEN x.id ELSE 0

\* the identity of the next object made: one no object made so far has
NextId(heap) == Max({0} \cup {IdOf(heap[i]) : i \in 1..Len(heap)}) + 1

\* a variant of atom: atoms interned by description (a registry)
atomInterned(name, heap) ==
  LET same == {i \in 1..Len(heap) :
                 IsJs(heap[i]) /\ heap[i].t = "symobj" /\ heap[i].s = name}
  IN IF same # {} THEN heap[CHOOSE i \in same : TRUE]
     ELSE SymObj(name, NextId(heap))

\* atom(name): Object(Symbol(name)) with to() attached
atom(name, heap) == SymObj(name, NextId(heap))

\* the module's one None object
NoneObject == None @@ [id |-> 0, methods |-> FALSE]

\* the object option() returns: the fields of opt spread into a new object
\* that carries to, expect and unwrap
withMethods(value, heap) ==
  option(value) @@ [id |-> NextId(heap), methods |-> TRUE]

\* the opt the methods of an Option object have captured: the None object,
\* or the frozen object Some() made in the same call (it has no methods)
capturedOpt(self) ==
  IF self.isNone THEN NoneObject ELSE [self EXCEPT !.methods = FALSE]

\* ------------------------------------------------------------ conversions
\* What a conversion does: its outcome, and the objects option() or atom()
\* made inside it.
Conv(res, made) == [res |-> res, made |-> made]

\* isOption(v) of _to: an object with the fields isSome and isNone
isOption(v) == ~IsJs(v) /\ "isSome" \in DOMAIN v /\ "isNone" \in DOMAIN v

\* value && (value.type === "Ok" || value.type === "Err")
isResultValue(v) == ~IsJs(v) /\ "type" \in DOMAIN v /\ v.type \in {"Ok", "Err"}

\* typeof v, for every argument _to can receive
typeofAny(v) == IF IsJs(v) THEN TypeOf(v) ELSE "object"

Targets == {"option", "atom", "result", "other"}

\* a variant of toOption: the symbol itself wrapped, not its description
toOptionOfSymbol(value, heap) ==
  IF isOption(value) THEN Conv(Ret(value), <<>>)
  ELSE LET o == withMethods(value, heap) IN Conv(Ret(o), <<o>>)

\* case "option" of _to
toOption(value, heap) ==
  IF isOption(value) THEN Conv(Ret(value), <<>>)
  ELSE IF typeofAny(value) = "symbol"
    THEN LET o == withMethods(Str(value.s), heap) IN Conv(Ret(o), <<o>>)
  ELSE LET o == withMethods(value, heap) IN Conv(Ret(o), <<o>>)

\* a variant of toAtom: the atom made before the payload is examined
toAtomEager(value, heap) ==
  IF isOption(value)
    THEN LET a == atom(IF value.isSome THEN StringOf(value.value) ELSE "undefined", heap)
         IN IF value.isNone THEN Conv(Throw("Cannot convert None to Atom"), <<a>>)
            ELSE IF TypeOf(value.value) # "string"
              THEN Conv(Throw("Only string values can be converted to Atom"), <<a>>)
            ELSE Conv(Ret(a), <<a>>)
  ELSE IF typeofAny(value) = "symbol" THEN Conv(Ret(value), <<>>)
  ELSE Conv(Throw("Cannot convert type " \o typeofAny(value) \o " to Atom"), <<>>)

\* case "atom" of _to
toAtom(value, heap) ==
  IF isOption(value)
    THEN IF value.isNone THEN Conv(Throw("Cannot convert None to Atom"), <<>>)
         ELSE IF TypeOf(value.value) # "string"
           THEN Conv(Throw("Only string values can be converted to Atom"), <<>>)
         ELSE LET a == atom(value.value.s, heap) IN Conv(Ret(a), <<a>>)
  ELSE IF typeofAny(value) = "symbol" THEN Conv(Ret(value), <<>>)
  ELSE Conv(Throw("Cannot convert type " \o typeofAny(value) \o " to Atom"), <<>>)

\* a variant of toResult: None wrapped like any other value
toResultNoneOk(value, heap) ==
  IF isOption(value) /\ value.isSome THEN Conv(Ret(Ok(value.value)), <<>>)
  ELSE IF typeofAny(value) = "symbol" THEN Conv(Ret(Ok(Str(value.s))), <<>>)
  ELSE Conv(Ret(Ok(value)), <<>>)

\* case "result" of _to
toResult(value, heap) ==
  IF isOption(value)
    THEN Conv(Ret(IF value.isSome THEN Ok(value.value)
                  ELSE Err(Str("Value is None"))), <<>>)
  ELSE IF typeofAny(value) = "symbol" THEN Conv(Ret(Ok(Str(value.s))), <<>>)
  ELSE Conv(Ret(Ok(value)), <<>>)

\* the switch of _to over the target
toSwitch(value, target, heap) ==
  CASE target = "option" -> toOption(value, heap)
    [] target = "atom" -> toAtom(value, heap)
    [] target = "result" -> toResult(value, heap)
    [] OTHER -> Conv(Throw("Invalid target: " \o target), <<>>)

\* a variant of _to: a Result converts to "result" as itself
_toResultIdentity(value, target, heap) ==
  IF isResultValue(value)
    THEN IF target = "result" THEN Conv(Ret(value), <<>>)
         ELSE Conv(Throw("Cannot convert a Result to any other type"), <<>>)
  ELSE toSwitch(value, target, heap)

\* _to(value, target)
_to(value, target, heap) ==
  IF isResultValue(value)
    THEN Conv(Throw("Cannot convert a Result to any other type"), <<>>)
  ELSE toSwitch(value, target, heap)

\* the to() of an Option object: _to(opt, target)
optionTo(self, target, heap) == _to(capturedOpt(self), target, heap)

\* the to() of an atom: _to(s, target), s the symbol the wrapper boxes
atomTo(self, target, heap) == _to(Sym(self.s, self.n), target, heap)

\* --------------------------------------------------------------- matching
\* A patterns object is the set of keys the caller supplied (own); the
\* handler under key k returns HandlerReturn(k).  What a match does: its
\* outcome and the handlers it invoked, in order, each with its argument.
Patterns(own) == [own |-> own]

HandlerReturn(k) == Str("handler " \o k)

Matched(res, invoked) == [res |-> res, invoked |-> invoked]

Invocation(k, a, inherited) == [key |-> k, arg |-> a, inherited |-> inherited]

\* the properties every object literal inherits from Object.prototype
ObjectPrototypeKeys ==
  { "constructor", "toString", "toLocaleString", "valueOf", "hasOwnProperty",
    "isPrototypeOf", "propertyIsEnumerable", "__proto__", "__defineGetter__",
    "__defineSetter__", "__lookupGetter__", "__lookupSetter__" }

\* Object(v), for the values that derive a key of Object.prototype (strings
\* and atoms): the wrapper of a string or of a symbol, an object itself
ObjectOf(v) ==
  CASE "t" \notin DOMAIN v -> v
    [] v.t = "str" -> StrObj(v.s)
    [] v.t = "sym" -> V("symwrap", v.s, v.n, "none")
    [] OTHER -> v

\* patterns[k](a) for a key k that patterns only inherits: the outcome of
\* the function of Object.prototype, and the handlers of the caller it
\* invokes on the way.  toLocaleString calls this.toString(), which is the
\* caller's handler when patterns has an entry "toString"; hasOwnProperty
\* and propertyIsEnumerable turn a into a property key, "[object Object]"
\* for a tagged value.
inheritedCall(patterns, k, a) ==
  CASE k = "toString" -> Matched(Ret(Str("[object Object]")), <<>>)
    [] k = "toLocaleString" ->
         IF "toString" \in patterns.own
           THEN Matched(Ret(HandlerReturn("toString")),
                        <<Invocation("toString", Undefined, FALSE)>>)
           ELSE Matched(Ret(Str("[object Object]")), <<>>)
    [] k = "valueOf" -> Matched(Ret(V("patterns", "", 0, "none")), <<>>)
    [] k \in {"hasOwnProperty", "propertyIsEnumerable"} ->
         Matched(Ret(Bool("type" \in DOMAIN a /\ "[object Object]" \in patterns.own)),
                 <<>>)
    [] k = "isPrototypeOf" -> Matched(Ret(Bool(FALSE)), <<>>)
    [] k = "constructor" -> Matched(Ret(ObjectOf(a)), <<>>)
    [] k \in {"__lookupGetter__", "__lookupSetter__"} -> Matched(Ret(Undefined), <<>>)
    [] OTHER -> Matched(Throw("TypeError"), <<>>)

\* k in patterns, and the truthiness of patterns[k] for the keys modelled
hasKey(patterns, k) == k \in patterns.own \/ k \in ObjectPrototypeKeys

\* patterns[k](a): the handler the caller supplied, else the inherited
\* function, else the call of something that is no function (undefined, or
\* the prototype object under "__proto__")
callEntry(patterns, k, a) ==
  IF k \in patterns.own
    THEN Matched(Ret(HandlerReturn(k)), <<Invocation(k, a, FALSE)>>)
  ELSE IF k \in ObjectPrototypeKeys \ {"__proto__"}
    THEN LET m == inheritedCall(patterns, k, a)
         IN Matched(m.res, <<Invocation(k, a, TRUE)>> \o m.invoked)
  ELSE Matched(Throw("TypeError"), <<>>)

\* handler(value) for a handler that is a function of Object.prototype,
\* called detached: this is undefined (module code is strict).  toString
\* answers for undefined, Object(value) needs no this, isPrototypeOf
\* returns false for a primitive before it looks at this; every other one
\* fails converting this to an object.
detachedCall(k, a) ==
  CASE k = "toString" -> Ret(Str("[object Undefined]"))
    [] k = "constructor" -> Ret(ObjectOf(a))
    [] k = "isPrototypeOf" /\ "t" \in DOMAIN a
         /\ TypeOf(a) \notin {"object", "function"} -> Ret(Bool(FALSE))
    [] OTHER -> Throw("TypeError")

\* a variant of match: the handler receives the payload, not the tagged value
matchPayload(value, patterns) ==
  LET k == value.type
      payload == IF k \in {"Some", "Ok"} THEN value.value ELSE Undefined
  IN IF ~hasKey(patterns, k)
       THEN Matched(Throw("Non-exhaustive match -- missing handler for '"
                            \o k \o "'"), <<>>)
     ELSE IF k \in patterns.own
       THEN Matched(Ret(HandlerReturn(k)), <<Invocation(k, payload, FALSE)>>)
     ELSE IF k = "__proto__" THEN Matched(Throw("TypeError"), <<>>)
     ELSE Matched(detachedCall(k, payload), <<Invocation(k, payload, TRUE)>>)

\* match(value, patterns): const handler = patterns[value.type], then
\* handler(value), the handler detached from patterns; patterns.__proto__ is
\* an object, not a function.  "--" in the message stands for the em dash.
match(value, patterns) ==
  LET k == value.type
  IN IF ~hasKey(patterns, k)
       THEN Matched(Throw("Non-exhaustive match -- missing handler for '"
                            \o k \o "'"), <<>>)
     ELSE IF k \in patterns.own
       THEN Matched(Ret(HandlerReturn(k)), <<Invocation(k, value, FALSE)>>)
     ELSE IF k = "__proto__" THEN Matched(Throw("TypeError"), <<>>)
     ELSE Matched(detachedCall(k, value), <<Invocation(k, value, TRUE)>>)

\* v.valueOf()
valueOf(v) ==
  CASE v.t = "symobj" -> Sym(v.s, v.n)
    [] v.t = "date" -> Num(v.n)
    [] v.t = "strobj" -> Str(v.s)
    [] OTHER -> v

\* unbox of matchAll: typeof v?.valueOf === "function" ? v.valueOf() : v
unbox(v) == IF Nullish(v) THEN v ELSE valueOf(v)

\* getSymbol of matchAll
getSymbol(v) == IF TypeOf(v) = "symbol" THEN Str(v.s) ELSE Undefined

runtimeMatchKeyCheck(key) ==
  TypeOf(key) \in {"string", "number", "boolean", "symbol"}

\* a variant of matchAll: the handler receives the unboxed value
matchAllUnboxed(value, patterns) ==
  LET raw == unbox(value)
  IN IF ~runtimeMatchKeyCheck(raw)
       THEN Matched(Throw("Unsupported match all value type: " \o TypeOf(raw)), <<>>)
       ELSE LET key == IF ~Nullish(getSymbol(raw)) THEN getSymbol(raw) ELSE raw
                normalizedKey == IF TypeOf(key) \in {"boolean", "number"}
                                   THEN Str(StringOf(key)) ELSE key
            IN IF ~Nullish(normalizedKey) /\ hasKey(patterns, normalizedKey.s)
                 THEN callEntry(patterns, normalizedKey.s, raw)
                 ELSE callEntry(patterns, "_", Undefined)

\* a variant of matchAll: numbers and booleans are not turned into strings,
\* so only strings and atoms find their entry
matchAllRawKeys(value, patterns) ==
  LET raw == unbox(value)
  IN IF ~runtimeMatchKeyCheck(raw)
       THEN Matched(Throw("Unsupported match all value type: " \o TypeOf(raw)), <<>>)
       ELSE LET key == IF ~Nullish(getSymbol(raw)) THEN getSymbol(raw) ELSE raw
            IN IF ~Nullish(key) /\ hasKey(patterns, key.s)
                 THEN callEntry(patterns, key.s, value)
                 ELSE callEntry(patterns, "_", Undefined)

\* matchAll(value, patterns)
matchAll(value, patterns) ==
  LET raw == unbox(value)
  IN IF ~runtimeMatchKeyCheck(raw)
       THEN Matched(Throw("Unsupported match all value type: " \o TypeOf(raw)), <<>>)
       ELSE LET key == IF ~Nullish(getSymbol(raw)) THEN getSymbol(raw) ELSE raw
                normalizedKey == IF TypeOf(key) \in {"boolean", "number"}
                                   THEN Str(StringOf(key)) ELSE key
            IN IF ~Nullish(normalizedKey) /\ hasKey(patterns, normalizedKey.s)
                 THEN callEntry(patterns, normalizedKey.s, value)
                 ELSE callEntry(patterns, "_", Undefined)

\* ----------------------------------------------------------- zip family
\* A collection handed to zip(): an array, a Set (new Set(items): the
\* distinct elements, each at its first position), or a record (an object
\* literal: its entries, key and value, as written, the keys distinct).
ArrayOf(items) == [kind |-> "array", items |-> items]
SetOf(items) ==
  LET firsts == {i \in 1..Len(items) : \A j \in 1..(i - 1) : items[j] # items[i]}
  IN [kind |-> "set",
      items |-> [k \in 1..Cardinality(firsts) |->
                   items[CHOOSE i \in firsts :
                           Cardinality({j \in firsts : j < i}) = k - 1]]]
RecordOf(entries) == [kind |-> "record", entries |-> entries]

\* Object.values(input): the values of the integer keys ("0", "1", ..., up
\* to MaxIndexKey here) in ascending order, then those of the other keys in
\* the order they were written
ObjectValues(input) ==
  LET e == input.entries
      IsIndex(i) == \E n \in 0..MaxIndexKey : e[i][1] = ToString(n)
      IndexOf(i) == CHOOSE n \in 0..MaxIndexKey : e[i][1] = ToString(n)
      Before(q, p) ==
        \/ IsIndex(q) /\ ~IsIndex(p)
        \/ IsIndex(q) /\ IsIndex(p) /\ IndexOf(q) < IndexOf(p)
        \/ ~IsIndex(q) /\ ~IsIndex(p) /\ q < p
  IN [k \in 1..Len(e) |->
        e[CHOOSE p \in 1..Len(e) :
            Cardinality({q \in 1..Len(e) : Before(q, p)}) = k - 1][2]]

\* the options of zip(): a field that is omitted is undefined
ZipOptions(fillValue, includeValues) ==
  [fillValue |-> fillValue, includeValues |-> includeValues]

Min(S) == CHOOSE m \in S : \A k \in S : m <= k

\* a variant of toArray: Sets pass as arrays do
toArrayLenient(input, includeValues) ==
  IF ~includeValues /\ input.kind = "record"
    THEN Throw("Only arrays allowed when includeValues=false")
  ELSE IF input.kind \in {"array", "set"} THEN Ret(input.items)
  ELSE Ret(ObjectValues(input))

\* toArray(input, includeValues)
toArray(input, includeValues) ==
  IF ~includeValues /\ input.kind # "array"
    THEN Throw("Only arrays allowed when includeValues=false")
  ELSE IF input.kind = "array" THEN Ret(input.items)
  ELSE IF input.kind = "set" THEN Ret(input.items)
  ELSE Ret(ObjectValues(input))

\* a variant of zipRows: one row per array, not one per index
zipRowsByInput(arrays, length, fillValue) ==
  [k \in 1..Len(arrays) |->
     [i \in 1..length |->
        IF i <= Len(arrays[k]) THEN arrays[k][i] ELSE fillValue]]

\* the rows zip() builds from the arrays
zipRows(arrays, length, fillValue) ==
  [i \in 1..length |->
     [k \in 1..Len(arrays) |->
        IF i <= Len(arrays[k]) THEN arrays[k][i] ELSE fillValue]]

\* a variant of zipLength: a fillValue counts only when it is truthy
zipLengthFalsy(arrays, fillValue) ==
  LET lens == {Len(arrays[k]) : k \in 1..Len(arrays)}
  IN IF ~Truthy(fillValue) THEN Min(lens) ELSE Max(lens)

\* length = fillValue === undefined ? minLength : maxLength
zipLength(arrays, fillValue) ==
  LET lens == {Len(arrays[k]) : k \in 1..Len(arrays)}
  IN IF fillValue = Undefined THEN Min(lens) ELSE Max(lens)

\* zip(inputs, options): includeValues defaults to false when it is
\* undefined; inputs.map(toArray) fails at the first input that toArray
\* rejects
zip(inputs, options) ==
  IF Len(inputs) = 0 THEN Ret(<<>>)
  ELSE LET includeValues == IF options.includeValues = Undefined THEN FALSE
                            ELSE Truthy(options.includeValues)
           conv == [k \in 1..Len(inputs) |-> toArray(inputs[k], includeValues)]
           failed == {k \in 1..Len(inputs) : conv[k].outcome = "throw"}
       IN IF failed # {} THEN conv[Min(failed)]
          ELSE LET arrays == [k \in 1..Len(inputs) |-> conv[k].val]
               IN Ret(zipRows(arrays, zipLength(arrays, options.fillValue),
                              options.fillValue))

\* fn(...args), for the functions of the caller: "tuple" is (t) => f(t),
\* which reads its first argument; "sep" is (t, sep = "-") => f(t, sep),
\* which reads its second too, "-" standing in when it is omitted
Applied(fn, args) ==
  IF fn = "sep"
    THEN [applied |-> args[1],
          sep |-> IF Len(args) >= 2 /\ args[2] # Undefined THEN args[2] ELSE Str("-")]
    ELSE [applied |-> args[1]]

\* zipWith(inputs, fn, options) == zip(inputs, options).map(fn): map calls
\* fn(row, index, rows); its outcome and the calls of fn, in order
zipWith(inputs, fn, options) ==
  LET z == zip(inputs, options)
  IN IF z.outcome = "throw" THEN Matched(z, <<>>)
     ELSE Matched(Ret([i \in 1..Len(z.val) |->
                         Applied(fn, <<z.val[i], Num(i - 1), z.val>>)]),
                  [i \in 1..Len(z.val) |->
                     Invocation("fn", <<z.val[i], Num(i - 1), z.val>>, FALSE)])

\* tuple.forEach((v, i) => result[i]?.push(v)), from element i on
RECURSIVE pushTuple(_, _, _)
pushTuple(result, tuple, i) ==
  IF i > Len(tuple) THEN result
  ELSE pushTuple(IF i <= Len(result)
                   THEN [result EXCEPT ![i] = Append(@, tuple[i])]
                   ELSE result,
                 tuple, i + 1)

\* for (const tuple of zipped) ..., from row r on
RECURSIVE unzipLoop(_, _, _)
unzipLoop(result, zipped, r) ==
  IF r > Len(zipped) THEN result
  ELSE unzipLoop(pushTuple(result, zipped[r], 1), zipped, r + 1)

\* a variant of unzipColumns: as many columns as the longest row has
unzipColumnsLongest(zipped) == Max({Len(zipped[r]) : r \in 1..Len(zipped)})

\* const length = zipped[0]?.length ?? 0
unzipColumns(zipped) == Len(zipped[1])

\* a variant of unzip: the loop starts at the second row
unzipFromSecond(zipped) ==
  IF Len(zipped) = 0 THEN <<>>
  ELSE unzipLoop([c \in 1..unzipColumns(zipped) |-> <<>>], zipped, 2)

\* unzip(zipped)
unzip(zipped) ==
  IF Len(zipped) = 0 THEN <<>>
  ELSE unzipLoop([c \in 1..unzipColumns(zipped) |-> <<>>], zipped, 1)

\* -------------------------------------------------------------- safeTry
\* The function handed to safeTry(): "sync", it returns payload or throws
\* it; "async", the promise it returns is settled already, resolved with
\* payload or rejected with it; "timer", it returns a promise that the
\* callback of a timer settles; "asyncTimer", it is an async function that
\* awaits a timer and then returns or throws.
TryFn(kind, fails, payload) ==
  [kind |-> kind, fails |-> fails, payload |-> payload]

\* the promise safeTry() returns: pending ([settled |-> "pending"]), or
\* settled
Fulfilled(result, error) ==
  [settled |-> "fulfilled", result |-> result, error |-> error]
Rejected(reason) == [settled |-> "rejected", reason |-> reason]

\* error instanceof Error ? error : new Error(String(error)): the Error, or
\* the TypeError of String(error)
normalizeError(error, heap) ==
  IF error.t = "error" THEN Ret(error)
  ELSE IF StringThrows(error)
    THEN Throw("Cannot convert a Symbol value to a string")
  ELSE Ret(ErrorObj(StringOf(error), NextId(heap)))

\* how the promise of safeTry(fn, options) settles, throw being
\* options?.throw: `await fn()` takes the outcome of a synchronous and an
\* asynchronous fn alike; a TypeError thrown inside the catch block rejects
\* the promise
safeTry(fn, throw, heap) ==
  LET shouldThrow == IF Nullish(throw) THEN Bool(FALSE) ELSE throw
      error == normalizeError(fn.payload, heap)
  IN IF ~fn.fails THEN Fulfilled(fn.payload, Null)
     ELSE IF error.outcome = "throw" THEN Rejected(ErrorObj(error.msg, NextId(heap)))
     ELSE IF Truthy(shouldThrow) THEN Rejected(error.val)
     ELSE Fulfilled(Null, error.val)

\* ------------------------------------------------------------------ state
\* A library call and what it did: op, the object it was made on (or made),
\* its argument (arg: a payload or msg; fb: a fallback), its outcome, and for
\* else() the value it left in the closure variable handled.
NoObj == [type |-> "none"]

NoCall ==
  [op |-> "none", obj |-> NoObj, arg |-> Undefined, fb |-> Lit(Undefined),
   res |-> Ret(Undefined), handled |-> FALSE]

Call(op, o, arg, fb, res, handled) ==
  [op |-> op, obj |-> o, arg |-> arg, fb |-> fb, res |-> res, handled |-> handled]

\* A handle: obj and handled are the closure of one unwrap() call.  The other
\* fields record history: inCaller is TRUE until the frame that called
\* unwrap() has returned; elseBefore, whether else() was called before the
\* deferred check ran; elseFailed, the message of an else() call that failed
\* before it ("" if none); check is "pending" until the check has run.
NewHandle(o) ==
  [obj |-> o, handled |-> FALSE, inCaller |-> TRUE, elseBefore |-> FALSE,
   elseFailed |-> "", check |-> "pending"]

CheckTask(h) == [kind |-> "check", h |-> h, via |-> ""]
UserTask == [kind |-> "user", h |-> 0, via |-> ""]


\* every object the constructors can return on the value universe
Objects ==
  {option(v) : v \in Values} \cup {Ok(v) : v \in Values} \cup {Err(v) : v \in Values}

\* Representative inputs of the caller in Spec: one per path of the code.
OptionInputs == { Null, Num(0) }
ExpectInputs == { Undefined, Str("m") }

Init ==
  /\ objs = <<>>
  /\ handles = <<>>
  /\ microtasks = <<>>
  /\ running = TRUE
  /\ uncaught = <<>>
  /\ last = NoCall

\* ------------------------------------------------------- actions of Spec
\* const o = option(v)
CallOption(v) ==
  /\ running
  /\ Len(objs) < MaxObjs
  /\ objs' = Append(objs, option(v))
  /\ last' = Call("option", option(v), v, Lit(Undefined), Ret(Undefined), FALSE)
  /\ UNCHANGED <<handles, microtasks, running, uncaught>>

\* const o = Ok(v)
CallOk(v) ==
  /\ running
  /\ Len(objs) < MaxObjs
  /\ objs' = Append(objs, Ok(v))
  /\ last' = Call("Ok", Ok(v), v, Lit(Undefined), Ret(Undefined), FALSE)
  /\ UNCHANGED <<handles, microtasks, running, uncaught>>

\* const o = Err(e)
CallErr(e) ==
  /\ running
  /\ Len(objs) < MaxObjs
  /\ objs' = Append(objs, Err(e))
  /\ last' = Call("Err", Err(e), e, Lit(Undefined), Ret(Undefined), FALSE)
  /\ UNCHANGED <<handles, microtasks, running, uncaught>>

\* const h = o.unwrap(): a fresh closure over o, its check scheduled, the
\* chain returned
CallUnwrap(o, qmt) ==
  /\ running
  /\ o \in 1..Len(objs)
  /\ Len(handles) < MaxHandles
  /\ handles' = Append(handles, NewHandle(objs[o]))
  /\ microtasks' = scheduleMicrotask(microtasks, CheckTask(Len(handles) + 1), qmt)
  /\ last' = Call("unwrap", objs[o], Undefined, Lit(Undefined), Ret(Undefined), FALSE)
  /\ UNCHANGED <<objs, running, uncaught>>

\* a variant of CallElse: one handled flag per object, shared by the chains
\* of all its unwrap() calls
CallElseShared(h, fb) ==
  /\ running
  /\ h \in 1..Len(handles)
  /\ LET hd == handles[h]
         d == elseOf(hd.obj, fb, hd.handled)
         pending == hd.check = "pending"
     IN /\ handles' = [k \in 1..Len(handles) |->
                         IF k = h
                           THEN [hd EXCEPT
                                   !.handled = d.handled,
                                   !.elseBefore = @ \/ pending,
                                   !.elseFailed =
                                      IF pending /\ d.res.outcome = "throw"
                                        THEN d.res.msg ELSE @]
                         ELSE IF handles[k].obj = hd.obj
                           THEN [handles[k] EXCEPT !.handled = d.handled]
                         ELSE handles[k]]
        /\ last' = Call("else", hd.obj, Undefined, fb, d.res, d.handled)
  /\ UNCHANGED <<objs, microtasks, running, uncaught>>

\* h.else(fb)
CallElse(h, fb) ==
  /\ running
  /\ h \in 1..Len(handles)
  /\ LET hd == handles[h]
         d == elseOf(hd.obj, fb, hd.handled)
         pending == hd.check = "pending"
     IN /\ handles' = [handles EXCEPT
                         ![h].handled = d.handled,
                         ![h].elseBefore = @ \/ pending,
                         ![h].elseFailed =
                            IF pending /\ d.res.outcome = "throw" THEN d.res.msg ELSE @]
        /\ last' = Call("else", hd.obj, Undefined, fb, d.res, d.handled)
  /\ UNCHANGED <<objs, microtasks, running, uncaught>>

\* queueMicrotask(cb) by the caller: cb is more caller code
QueueUser ==
  /\ running
  /\ Cardinality({i \in 1..Len(microtasks) : microtasks[i].kind = "user"}) < MaxUser
  /\ microtasks' = scheduleMicrotask(microtasks, UserTask, TRUE)
  /\ UNCHANGED <<objs, handles, running, uncaught, last>>

\* the synchronous frame returns to the host
EndFrame ==
  /\ running
  /\ running' = FALSE
  /\ handles' = [h \in 1..Len(handles) |-> [handles[h] EXCEPT !.inCaller = FALSE]]
  /\ last' = NoCall
  /\ UNCHANGED <<objs, microtasks, uncaught>>

\* the host runs a deferred check from the head of the microtask queue
RunCheck ==
  /\ microtaskRuns(running, microtasks)
  /\ Head(microtasks).kind = "check"
  /\ LET h == Head(microtasks).h
         hd == handles[h]
         res == checkOf(hd.obj, hd.handled)
         reaction == Head(microtasks).via = "promise"
     IN /\ handles' = [handles EXCEPT
                         ![h].check = IF res.outcome # "throw" THEN "noop"
                                      ELSE IF reaction THEN "thrown" ELSE "raised"]
        /\ uncaught' = IF res.outcome = "throw" /\ ~reaction
                         THEN Append(uncaught,
                                [h |-> h, msg |-> res.msg, inline |-> running,
                                 inCaller |-> hd.inCaller,
                                 origin |-> "uncaughtException"])
                         ELSE uncaught
  /\ microtasks' = Tail(microtasks)
  /\ UNCHANGED <<objs, running, last>>

\* the host runs a microtask of the caller: a new synchronous frame
RunUser ==
  /\ microtaskRuns(running, microtasks)
  /\ Head(microtasks).kind = "user"
  /\ microtasks' = Tail(microtasks)
  /\ running' = TRUE
  /\ last' = IF running THEN last ELSE NoCall
  /\ UNCHANGED <<objs, handles, uncaught>>

\* the host, its microtask queue drained, raises the failure of a check that
\* ran as a promise reaction and threw: the rejection nobody handled, the
\* earliest first
ReportRejection ==
  /\ ~running
  /\ microtasks = <<>>
  /\ \E h \in 1..Len(handles) :
       /\ handles[h].check = "thrown"
       /\ \A k \in 1..(h - 1) : handles[k].check # "thrown"
       /\ handles' = [handles EXCEPT ![h].check = "raised"]
       /\ uncaught' = Append(uncaught,
                         [h |-> h, msg |-> checkOf(handles[h].obj, FALSE).msg,
                          inline |-> running, inCaller |-> handles[h].inCaller,
                          origin |-> "unhandledRejection"])
  /\ UNCHANGED <<objs, microtasks, running, last>>

\* the host starts the next task (a timer, an event) once the queue is empty
\* and the rejections nobody handled are raised: those of deferred checks,
\* and those of the promises of safeTry
StartTask ==
  /\ ~running
  /\ microtasks = <<>>
  /\ \A h \in 1..Len(handles) : handles[h].check # "thrown"
  /\ \A p \in 1..Len(objs) :
       ("reported" \in DOMAIN objs[p] /\ objs[p].res.settled = "rejected")
         => (objs[p].awaited \/ objs[p].reported)
  /\ running' = TRUE
  /\ last' = NoCall
  /\ UNCHANGED <<objs, handles, microtasks, uncaught>>

Next ==
  \/ \E v \in OptionInputs : CallOption(v)
  \/ \E v \in { Num(0) } : CallOk(v)
  \/ \E e \in { Str("x"), ObjMsgNum(7), Null } : CallErr(e)
  \/ \E o \in 1..MaxObjs, qmt \in BOOLEAN : CallUnwrap(o, qmt)
  \/ \E h \in 1..MaxHandles, fb \in { Lit(Str("x")), Lit(Null), FnThrow } :
       CallElse(h, fb)
  \/ QueueUser
  \/ EndFrame
  \/ RunCheck
  \/ RunUser
  \/ ReportRejection
  \/ StartTask

Spec == Init /\ [][Next]_vars

\* -------------------------------------------------- actions of SpecCalls
\* The caller evaluates one expression on a fresh object, in a frame of its
\* own; the call and its outcome are recorded.

\* one expression is evaluated per behaviour
Idle == last.op = "none"

\* option(v)
ApplyOption(v) ==
  /\ running
  /\ Idle
  /\ last' = Call("option", option(v), v, Lit(Undefined), Ret(Undefined), FALSE)
  /\ UNCHANGED <<objs, handles, microtasks, running, uncaught>>

\* o.expect(msg)
ApplyExpect(o, msg) ==
  /\ running
  /\ Idle
  /\ last' = Call("expect", o, msg, Lit(Undefined), expectOf(o, msg), FALSE)
  /\ UNCHANGED <<objs, handles, microtasks, running, uncaught>>

\* o.unwrap().else(fb), chained: unwrap() hands its check to the host, then
\* else() is entered with handled FALSE
ApplyElse(o, fb, qmt) ==
  /\ running
  /\ Idle
  /\ LET d == elseOf(o, fb, FALSE)
     IN /\ handles' = Append(handles,
                        [NewHandle(o) EXCEPT
                           !.handled = d.handled,
                           !.elseBefore = TRUE,
                           !.elseFailed =
                              IF d.res.outcome = "throw" THEN d.res.msg ELSE @])
        /\ last' = Call("else", o, Undefined, fb, d.res, d.handled)
  /\ microtasks' = scheduleMicrotask(microtasks, CheckTask(Len(handles) + 1), qmt)
  /\ UNCHANGED <<objs, running, uncaught>>

\* the frame that evaluated the expression returns, and the host runs the
\* check unwrap() queued
NextCalls ==
  \/ /\ Idle
     /\ \E v \in Values : ApplyOption(v)
  \/ /\ Idle
     /\ \E o \in Objects, msg \in { Undefined, Str(""), Str("m") } :
          ApplyExpect(o, msg)
  \/ /\ Idle
     /\ \E o \in Objects, fb \in Fallbacks, qmt \in BOOLEAN : ApplyElse(o, fb, qmt)
  \/ EndFrame
  \/ RunCheck

SpecCalls == Init /\ [][NextCalls]_vars

\* --------------------------------------------------- actions of SpecConv
\* Each action is one conversion evaluated by the caller on a fresh object;
\* it records the call (the receiver, the target, the outcome and the
\* objects made inside it) and leaves nothing else behind.
ConvCall(op, o, target, c) ==
  [op |-> op, obj |-> o, arg |-> target, res |-> c.res, made |-> c.made]

\* the names atoms are created with
AtomNames == { "", "x", "ready" }

\* every Result the constructors can return on the value universe
Results == {Ok(v) : v \in Values} \cup {Err(v) : v \in Values}

\* option(v).to(target)
ApplyOptionTo(v, target) ==
  /\ LET self == withMethods(v, objs)
     IN last' = ConvCall("to", self, target, optionTo(self, target, Append(objs, self)))
  /\ UNCHANGED <<objs, handles, microtasks, running, uncaught>>

\* atom(name).to(target)
ApplyAtomTo(name, target) ==
  /\ LET self == atom(name, objs)
     IN last' = ConvCall("to", self, target, atomTo(self, target, Append(objs, self)))
  /\ UNCHANGED <<objs, handles, microtasks, running, uncaught>>

\* _to(value, target), called directly
ApplyTo(value, target) ==
  /\ last' = ConvCall("_to", value, target, _to(value, target, objs))
  /\ UNCHANGED <<objs, handles, microtasks, running, uncaught>>

NextConv ==
  \/ \E v \in Values, target \in Targets : ApplyOptionTo(v, target)
  \/ \E name \in AtomNames, target \in Targets : ApplyAtomTo(name, target)
  \/ \E value \in Results \cup { Null, Undefined, Str("x"), Num(0), EmptyObj },
        target \in Targets : ApplyTo(value, target)

SpecConv == Init /\ [][NextConv]_vars

\* -------------------------------------------------- actions of SpecAtoms
\* The caller keeps every object option() and atom() made, in the order
\* they were made (objs), and converts the ones it holds.

\* const a = atom(name)
CallAtom(name) ==
  /\ Len(objs) < MaxAtoms
  /\ LET a == atom(name, objs)
     IN /\ objs' = Append(objs, a)
        /\ last' = ConvCall("atom", a, name, Conv(Ret(a), <<a>>))
  /\ UNCHANGED <<handles, microtasks, running, uncaught>>

\* const o = option(v), kept for conversion
CallOptionObj(v) ==
  /\ Len(objs) < MaxAtoms
  /\ LET o == withMethods(v, objs)
     IN /\ objs' = Append(objs, o)
        /\ last' = ConvCall("option", o, "", Conv(Ret(o), <<o>>))
  /\ UNCHANGED <<handles, microtasks, running, uncaught>>

\* objs[i].to(target)
CallTo(i, target) ==
  /\ i \in 1..Len(objs)
  /\ LET self == objs[i]
         c == IF IsJs(self) THEN atomTo(self, target, objs)
              ELSE optionTo(self, target, objs)
     IN /\ Len(objs) + Len(c.made) <= MaxAtoms
        /\ objs' = objs \o c.made
        /\ last' = ConvCall("to", self, target, c)
  /\ UNCHANGED <<handles, microtasks, running, uncaught>>

NextAtoms ==
  \/ \E name \in AtomNames : CallAtom(name)
  \/ \E v \in { Str("x"), Str("ready"), Null } : CallOptionObj(v)
  \/ \E i \in 1..MaxAtoms, target \in Targets : CallTo(i, target)

SpecAtoms == Init /\ [][NextAtoms]_vars

\* -------------------------------------------------- actions of SpecMatch
\* Each action is one match evaluated by the caller; it records the call,
\* its outcome and the handlers invoked, and leaves nothing else behind.
MatchCall(op, value, patterns, m) ==
  [op |-> op, obj |-> value, patterns |-> patterns, res |-> m.res,
   invoked |-> m.invoked]

\* the handler sets of match(): any of the four tags
TagKeys == { "Some", "None", "Ok", "Err" }

\* the keys a caller of matchAll() supplies
PatternKeys == { "x", "0", "true", "NaN", "toString", "_" }

\* the values matchAll() is applied to
MatchValues ==
  { Str("x"), Str(""), Str("_"), Str("toString"), Str("toLocaleString"),
    Str("__proto__"),
    Num(0), Num(7), NaN, PosInf, Bool(TRUE), Bool(FALSE),
    SymObj("x", 1), SymObj("ready", 2), SymObj("constructor", 3), Sym("x", 1),
    Null, Undefined, EmptyObj, EmptyArr, Fn, ObjMsgStr("y"), DateObj }

\* match(o, patterns)
ApplyMatch(o, own) ==
  /\ last' = MatchCall("match", o, Patterns(own), match(o, Patterns(own)))
  /\ UNCHANGED <<objs, handles, microtasks, running, uncaught>>

\* matchAll(v, patterns)
ApplyMatchAll(v, own) ==
  /\ last' = MatchCall("matchAll", v, Patterns(own), matchAll(v, Patterns(own)))
  /\ UNCHANGED <<objs, handles, microtasks, running, uncaught>>

NextMatch ==
  \/ /\ Idle
     /\ \E o \in Objects \cup {[type |-> t] : t \in {"toString", "valueOf", "__proto__"}},
           own \in SUBSET TagKeys : ApplyMatch(o, own)
  \/ /\ Idle
     /\ \E v \in MatchValues, own \in SUBSET PatternKeys : ApplyMatchAll(v, own)

SpecMatch == Init /\ [][NextMatch]_vars

\* ---------------------------------------------------- actions of SpecZip
\* The caller evaluates one expression of the zip family and keeps the call
\* and its outcome.
SeqsUpTo(S, n) == UNION {[1..k -> S] : k \in 0..n}

\* the collections: every array up to MaxLen over two elements, a Set and
\* a record
ZipInputs ==
  {ArrayOf(xs) : xs \in SeqsUpTo({ Num(0), Num(1) }, MaxLen)}
    \cup { SetOf(<<Num(1), Num(0), Num(1)>>),
           RecordOf(<< <<"b", Num(1)>>, <<"1", Num(1)>>, <<"0", Num(0)>> >>) }

\* the options: fillValue omitted or provided (0 and null too),
\* includeValues omitted, false or true
ZipOptionSets ==
  {ZipOptions(f, inc) : f \in { Undefined, Num(0), Null },
                        inc \in { Undefined, Bool(FALSE), Bool(TRUE) }}

\* the rows handed to unzip(): ragged ones too
RowLists == SeqsUpTo(SeqsUpTo({ Num(0), Num(1) }, MaxLen), MaxInputs + 1)

ZipCall(op, inputs, fn, options, res, invoked) ==
  [op |-> op, inputs |-> inputs, fn |-> fn, options |-> options, res |-> res,
   invoked |-> invoked]

\* zip(inputs, options)
ApplyZip(inputs, options) ==
  /\ Idle
  /\ last' = ZipCall("zip", inputs, "none", options, zip(inputs, options), <<>>)
  /\ UNCHANGED <<objs, handles, microtasks, running, uncaught>>

\* zipWith(inputs, fn, options)
ApplyZipWith(inputs, fn, options) ==
  /\ Idle
  /\ LET m == zipWith(inputs, fn, options)
     IN last' = ZipCall("zipWith", inputs, fn, options, m.res, m.invoked)
  /\ UNCHANGED <<objs, handles, microtasks, running, uncaught>>

\* unzip(rows)
ApplyUnzip(rows) ==
  /\ Idle
  /\ last' = ZipCall("unzip", rows, "none", ZipOptions(Undefined, Undefined),
                     Ret(unzip(rows)), <<>>)
  /\ UNCHANGED <<objs, handles, microtasks, running, uncaught>>

\* unzip(zip(inputs, options))
ApplyZipUnzip(inputs, options) ==
  /\ Idle
  /\ LET z == zip(inputs, options)
     IN last' = ZipCall("unzip(zip)", inputs, "none", options,
                        IF z.outcome = "throw" THEN z ELSE Ret(unzip(z.val)), <<>>)
  /\ UNCHANGED <<objs, handles, microtasks, running, uncaught>>

\* zip(unzip(rows))
ApplyUnzipZip(rows) ==
  /\ Idle
  /\ LET columns == unzip(rows)
         inputs == [c \in 1..Len(columns) |-> ArrayOf(columns[c])]
     IN last' = ZipCall("zip(unzip)", rows, "none", ZipOptions(Undefined, Undefined),
                        zip(inputs, ZipOptions(Undefined, Undefined)), <<>>)
  /\ UNCHANGED <<objs, handles, microtasks, running, uncaught>>

NextZip ==
  \/ /\ Idle
     /\ \E inputs \in SeqsUpTo(ZipInputs, MaxInputs), options \in ZipOptionSets :
          ApplyZip(inputs, options)
  \/ /\ Idle
     /\ \E inputs \in SeqsUpTo(ZipInputs, MaxInputs), fn \in { "tuple", "sep" },
           options \in ZipOptionSets :
          ApplyZipWith(inputs, fn, options)
  \/ /\ Idle
     /\ \E rows \in RowLists : ApplyUnzip(rows)
  \/ /\ Idle
     /\ \E inputs \in SeqsUpTo(ZipInputs, MaxInputs), options \in ZipOptionSets :
          ApplyZipUnzip(inputs, options)
  \/ /\ Idle
     /\ \E rows \in RowLists : ApplyUnzipZip(rows)

SpecZip == Init /\ [][NextZip]_vars

\* ----------------------------------------------------- actions of SpecTry
\* safeTry is an async function: the call runs fn inside the try and returns
\* a promise to the caller.  objs holds the promises made, each with its
\* call: awaited, whether the caller handles its rejection; timer, where the
\* timer of fn stands; reported, whether the host has raised its rejection.
\* A task of kind "try" in the microtask queue is the reaction that resumes
\* the call of promise h after `await fn()`, hops turns of the queue from now.

\* const p = safeTry(fn, { throw }): a synchronous fn that throws is caught
\* before anything is awaited, and p is settled when the call returns;
\* otherwise p is pending, and the call resumes in a microtask once what fn
\* returned is settled (at once, unless fn waits for a timer)
CallTry(fn, throw, awaited) ==
  /\ running
  /\ Len(objs) < MaxObjs
  /\ LET caught == fn.kind = "sync" /\ fn.fails
         waits == fn.kind \in {"timer", "asyncTimer"}
         res == IF caught THEN safeTry(fn, throw, <<fn.payload>>)
                ELSE [settled |-> "pending"]
     IN /\ objs' = Append(objs, [fn |-> fn, throw |-> throw, awaited |-> awaited,
                                  res |-> res, reported |-> FALSE,
                                  timer |-> IF waits THEN "waiting" ELSE "none"])
        /\ last' = [op |-> "safeTry", fn |-> fn, throw |-> throw, res |-> res]
        /\ microtasks' =
             IF caught \/ waits THEN microtasks
             ELSE Append(microtasks,
                         [kind |-> "try", h |-> Len(objs) + 1, via |-> "promise",
                          hops |-> 1])
  /\ UNCHANGED <<handles, running, uncaught>>

\* the timer of fn fires: the host starts a task that runs its callback
TimerFires(p) ==
  /\ ~running
  /\ microtasks = <<>>
  /\ \A q \in 1..Len(objs) :
       objs[q].res.settled = "rejected" => (objs[q].awaited \/ objs[q].reported)
  /\ p \in 1..Len(objs)
  /\ objs[p].timer = "waiting"
  /\ running' = TRUE
  /\ last' = NoCall
  /\ objs' = [objs EXCEPT ![p].timer = "fired"]
  /\ UNCHANGED <<handles, microtasks, uncaught>>

\* the callback settles what fn waits for, after whatever else it does: for
\* a "timer" fn that is the promise fn returned, and the call of safeTry
\* resumes one turn of the queue later; an "asyncTimer" fn resumes first,
\* and the call of safeTry the turn after
SettleFn(p) ==
  /\ running
  /\ p \in 1..Len(objs)
  /\ objs[p].timer = "fired"
  /\ objs' = [objs EXCEPT ![p].timer = "done"]
  /\ microtasks' = Append(microtasks,
                      [kind |-> "try", h |-> p, via |-> "promise",
                       hops |-> IF objs[p].fn.kind = "asyncTimer" THEN 2 ELSE 1])
  /\ UNCHANGED <<handles, running, uncaught, last>>

\* the host runs a reaction of the await chain: the last one resumes the
\* call after `await fn()`, which settles the promise safeTry returned
RunTry ==
  /\ microtaskRuns(running, microtasks)
  /\ Head(microtasks).kind = "try"
  /\ LET task == Head(microtasks)
         call == objs[task.h]
     IN IF task.hops > 1
          THEN /\ microtasks' = Append(Tail(microtasks), [task EXCEPT !.hops = @ - 1])
               /\ objs' = objs
          ELSE /\ microtasks' = Tail(microtasks)
               /\ objs' = [objs EXCEPT ![task.h].res =
                             safeTry(call.fn, call.throw, <<call.fn.payload>>)]
  /\ UNCHANGED <<handles, running, uncaught, last>>

\* the host, its microtask queue drained, raises the rejection of a promise
\* of safeTry that the caller does not handle
ReportTryRejection(p) ==
  /\ ~running
  /\ microtasks = <<>>
  /\ p \in 1..Len(objs)
  /\ objs[p].res.settled = "rejected"
  /\ ~objs[p].awaited
  /\ ~objs[p].reported
  /\ objs' = [objs EXCEPT ![p].reported = TRUE]
  /\ uncaught' = Append(uncaught,
                    [h |-> p, msg |-> objs[p].res.reason.s, inline |-> running,
                     inCaller |-> FALSE, origin |-> "unhandledRejection"])
  /\ UNCHANGED <<handles, microtasks, running, last>>

\* fn returns or throws any value, an Error or an atom too; options?.throw is
\* omitted, false or true; the caller awaits the promise or drops it; in
\* between, the caller queues microtasks of its own and the host starts
\* further tasks
NextTry ==
  \/ \E kind \in { "sync", "async", "timer", "asyncTimer" }, fails \in BOOLEAN,
        payload \in Values \cup { ErrorObj("", 2), SymObj("x", 3) },
        throw \in { Undefined, Bool(FALSE), Bool(TRUE) }, awaited \in BOOLEAN :
          CallTry(TryFn(kind, fails, payload), throw, awaited)
  \/ \E p \in 1..MaxObjs : TimerFires(p)
  \/ \E p \in 1..MaxObjs : SettleFn(p)
  \/ RunTry
  \/ \E p \in 1..MaxObjs : ReportTryRejection(p)
  \/ QueueUser
  \/ RunUser
  \/ EndFrame
  \/ StartTask

SpecTry == Init /\ [][NextTry]_vars

\* ----------------------------------------------------- actions of SpecMut
\* The object a constructor returns is a new object literal: the fields of
\* the frozen object spread into it (self), next to methods that have
\* captured the frozen object (opt).  Object.freeze covers opt only: a write
\* to a field of the returned object succeeds.

\* what the caller writes to a field
WritesTo(f) ==
  IF f = "type" THEN TagKeys
  ELSE IF f \in {"value", "error"} THEN { Num(2) }
  ELSE BOOLEAN

\* const o = option(v) / Ok(v) / Err(e)
MutConstruct(o) ==
  /\ running
  /\ objs = <<>>
  /\ objs' = <<[self |-> o, opt |-> o]>>
  /\ last' = Call("construct", o, Undefined, Lit(Undefined), Ret(Undefined), FALSE)
  /\ UNCHANGED <<handles, microtasks, running, uncaught>>

\* o[f] = w: the object is not frozen, so the write sets the field, a
\* field the object did not have (error on a Some, isOk on an Option) too
MutWrite(i, f, w) ==
  /\ running
  /\ i \in 1..Len(objs)
  /\ objs' = [objs EXCEPT ![i].self =
                [x \in DOMAIN @ \cup {f} |-> IF x = f THEN w ELSE @[x]]]
  /\ last' = Call("write", objs[i].opt, Undefined, Lit(Undefined), Ret(Undefined), FALSE)
  /\ UNCHANGED <<handles, microtasks, running, uncaught>>

\* match(o, patterns): the caller passes the object it holds
MutMatch(i, own) ==
  /\ running
  /\ i \in 1..Len(objs)
  /\ last' = MatchCall("match", objs[i].self, Patterns(own),
                       match(objs[i].self, Patterns(own)))
  /\ UNCHANGED <<objs, handles, microtasks, running, uncaught>>

\* o.expect(msg): the method reads the frozen object
MutExpect(i, msg) ==
  /\ running
  /\ i \in 1..Len(objs)
  /\ last' = Call("expect", objs[i].opt, msg, Lit(Undefined),
                  expectOf(objs[i].opt, msg), FALSE)
  /\ UNCHANGED <<objs, handles, microtasks, running, uncaught>>

\* o.unwrap().else(fb) in one expression: the check is scheduled, then
\* else() reads the frozen object
MutUnwrapElse(i, fb, qmt) ==
  /\ running
  /\ i \in 1..Len(objs)
  /\ Len(handles) < MaxHandles
  /\ LET d == elseOf(objs[i].opt, fb, FALSE)
     IN /\ handles' = Append(handles,
                        [NewHandle(objs[i].opt) EXCEPT
                           !.handled = d.handled,
                           !.elseBefore = TRUE,
                           !.elseFailed =
                              IF d.res.outcome = "throw" THEN d.res.msg ELSE @])
        /\ last' = Call("else", objs[i].opt, Undefined, fb, d.res, d.handled)
  /\ microtasks' = scheduleMicrotask(microtasks, CheckTask(Len(handles) + 1), qmt)
  /\ UNCHANGED <<objs, running, uncaught>>

NextMut ==
  \/ \E v \in { Null, Num(1) } : MutConstruct(option(v))
  \/ MutConstruct(Ok(Num(1)))
  \/ MutConstruct(Err(Str("x")))
  \/ \E f \in {"type", "value", "error", "isSome", "isNone", "isOk", "isErr"} :
       \E w \in WritesTo(f) : MutWrite(1, f, w)
  \/ MutMatch(1, TagKeys)
  \/ \E msg \in ExpectInputs : MutExpect(1, msg)
  \/ \E fb \in { Lit(Str("x")) }, qmt \in BOOLEAN : MutUnwrapElse(1, fb, qmt)
  \/ EndFrame
  \/ RunCheck
  \/ StartTask

SpecMut == Init /\ [][NextMut]_vars

\* ---------------------------------------------------- actions of SpecKeys
\* The caller evaluates matchAll on two values with the same patterns.
KeyValues ==
  { Num(1), Str("1"), SymObj("1", 1), Bool(TRUE), Str("true"),
    Str("x"), SymObj("x", 2), SymObj("x", 3), Sym("x", 2),
    Num(0), Str("toString"), SymObj("toString", 4) }

\* matchAll(a, patterns); matchAll(b, patterns)
ApplyMatchAllPair(a, b, own) ==
  /\ Idle
  /\ last' = [op |-> "matchAll pair", a |-> a, b |-> b, patterns |-> Patterns(own),
              first |-> matchAll(a, Patterns(own)),
              second |-> matchAll(b, Patterns(own))]
  /\ UNCHANGED <<objs, handles, microtasks, running, uncaught>>

NextKeys ==
  \E a \in KeyValues, b \in KeyValues, own \in SUBSET { "1", "true", "x", "_" } :
    ApplyMatchAllPair(a, b, own)

SpecKeys == Init /\ [][NextKeys]_vars

\* ------------------------------------------------- actions of SpecUnwraps
\* The caller calls unwrap() several times on the objects it holds.
\* const h = o.unwrap(), up to MaxUnwraps times
CallUnwrapAgain(o, qmt) ==
  /\ running
  /\ o \in 1..Len(objs)
  /\ Len(handles) < MaxUnwraps
  /\ handles' = Append(handles, NewHandle(objs[o]))
  /\ microtasks' = scheduleMicrotask(microtasks, CheckTask(Len(handles) + 1), qmt)
  /\ last' = Call("unwrap", objs[o], Undefined, Lit(Undefined), Ret(Undefined), FALSE)
  /\ UNCHANGED <<objs, running, uncaught>>

NextUnwraps ==
  \/ \E v \in OptionInputs : CallOption(v)
  \/ \E e \in { Str("x") } : CallErr(e)
  \/ \E o \in 1..MaxObjs, qmt \in BOOLEAN : CallUnwrapAgain(o, qmt)
  \/ \E h \in 1..MaxUnwraps, fb \in { Lit(Str("x")), Lit(Null) } : CallElse(h, fb)
  \/ EndFrame
  \/ RunCheck
  \/ ReportRejection
  \/ StartTask

SpecUnwraps == Init /\ [][NextUnwraps]_vars

\* ----------------------------------------------------------------- claims
\* the values the specification calls non-truthy
AbsentLike == {Null, Undefined, Str(""), NaN, PosInf, NegInf}

\* the failures recorded for handle h
RaisedFor(h) == {i \in 1..Len(uncaught) : uncaught[i].h = h}

\* the deferred check of handle h has run and thrown: its failure is raised
\* on the host, or is the rejection the host raises once its microtask queue
\* has drained
Threw(h) == handles[h].check \in {"thrown", "raised"}

\* the deferred checks of handle h still queued
QueuedFor(h) ==
  {i \in 1..Len(microtasks) : microtasks[i].kind = "check" /\ microtasks[i].h = h}

\* the message the specification derives from an error payload
DerivedMessage(e) ==
  IF e.t = "str" THEN e.s
  ELSE IF e.t = "obj" /\ e.mt = "str" THEN e.s
  ELSE IF e.t = "obj" /\ e.mt = "num" THEN ToString(e.n)
  ELSE IF e.t = "error" THEN e.s
  ELSE "Expected Ok, got Err"

\* C1: option(v) yields None (type "None", isNone, not isSome) exactly when v
\* is null, undefined, "", NaN, +Infinity or -Infinity; for every other v
\* (0, false, [], {} included) it yields Some holding v unchanged.
C1_OptionClassifies ==
  last.op = "option" =>
    LET o == last.obj
        v == last.arg
    IN IF v \in AbsentLike
         THEN o.type = "None" /\ o.isNone /\ ~o.isSome
         ELSE o.type = "Some" /\ o.isSome /\ ~o.isNone /\ o.value = v

C1_Witness ==
  /\ last.op = "option"
  /\ last.arg = PosInf
  /\ last.obj.isNone

\* C2: each unwrap() on an Option schedules exactly one deferred check; when
\* it has run, it has raised "Expected else" if and only if else() was not
\* called on that handle before it ran, and has done nothing otherwise.
C2_OptionDeferredCheck ==
  \A h \in 1..Len(handles) :
    IsOption(handles[h].obj) =>
      /\ Cardinality(QueuedFor(h)) = IF handles[h].check = "pending" THEN 1 ELSE 0
      /\ handles[h].check = "pending" => RaisedFor(h) = {}
      /\ handles[h].check # "pending" =>
           /\ Threw(h) <=> ~handles[h].elseBefore
           /\ Cardinality(RaisedFor(h)) = IF handles[h].check = "raised" THEN 1 ELSE 0
           /\ \A i \in RaisedFor(h) : uncaught[i].msg = "Expected else"

C2_Witness ==
  \E h \in 1..Len(handles) :
    /\ handles[h].obj.type = "Some"
    /\ handles[h].check = "raised"
    /\ \E i \in RaisedFor(h) : uncaught[i].msg = "Expected else"

\* C3: the deferred check of unwrap() on Err raises, when else() was not
\* called before it ran, a failure whose message is the formatted payload
\* (the string itself, the message field as a string, else "Expected Ok, got
\* Err"); the deferred check of unwrap() on Ok never raises.
C3_ResultDeferredCheck ==
  \A h \in 1..Len(handles) :
    LET o == handles[h].obj
    IN /\ (o.type = "Err" /\ handles[h].check # "pending" /\ ~handles[h].elseBefore) =>
            /\ Threw(h)
            /\ Cardinality(RaisedFor(h)) = IF handles[h].check = "raised" THEN 1 ELSE 0
            /\ \A i \in RaisedFor(h) : uncaught[i].msg = DerivedMessage(o.error)
       /\ o.type = "Ok" => (~Threw(h) /\ RaisedFor(h) = {})

C3_Witness ==
  \E h \in 1..Len(handles) :
    /\ handles[h].obj = Err(ObjMsgNum(7))
    /\ ~handles[h].elseBefore
    /\ \E i \in RaisedFor(h) :
         uncaught[i].msg = "7" /\ uncaught[i].origin = "unhandledRejection"

\* C4: unwrap() always returns a handle and never fails synchronously; the
\* failure of an unfulfilled obligation is raised only by the deferred check,
\* strictly after the frame that called unwrap() has ended, never inside it.
C4_RaisedOutsideCallerFrame ==
  /\ last.op = "unwrap" =>
       /\ last.res.outcome = "return"
       /\ handles # <<>>
       /\ handles[Len(handles)] = NewHandle(last.obj)
  /\ \A h \in 1..Len(handles) :
       /\ handles[h].inCaller => (handles[h].check = "pending" /\ RaisedFor(h) = {})
       /\ \A i \in RaisedFor(h) : ~uncaught[i].inline /\ ~uncaught[i].inCaller

C4_Witness ==
  \E h \in 1..Len(handles) :
    /\ handles[h].obj.type = "None"
    /\ ~handles[h].inCaller
    /\ \E i \in RaisedFor(h) : ~uncaught[i].inline /\ ~uncaught[i].inCaller

\* C5: calling else() fulfils the obligation on every branch: once else() was
\* called on a handle, its deferred check raises nothing, also when that
\* else() failed with "Fallback must be truthy" or the fallback threw.
C5_ElseAlwaysFulfils ==
  \A h \in 1..Len(handles) :
    handles[h].elseBefore =>
      /\ handles[h].handled
      /\ ~Threw(h)
      /\ RaisedFor(h) = {}

C5_Witness ==
  \E h \in 1..Len(handles) :
    /\ handles[h].elseFailed = "Fallback must be truthy"
    /\ handles[h].check = "noop"

\* C6: on Some and on Ok, unwrap().else(fallback) returns the wrapped value
\* for every fallback, and a fallback function is invoked zero times.
C6_PresentIgnoresFallback ==
  (last.op = "else" /\ last.obj.type \in {"Some", "Ok"}) =>
    /\ last.res.outcome = "return"
    /\ last.res.val = last.obj.value
    /\ last.res.calls = 0

C6_Witness ==
  /\ last.op = "else"
  /\ last.obj.type = "Some"
  /\ last.fb = FnThrow
  /\ last.res.outcome = "return"

\* C7: on None, the candidate of unwrap().else(fallback) is the literal, or
\* the return of the fallback function invoked exactly once with undefined;
\* the call fails with "Fallback must be truthy" exactly when the candidate
\* is null, undefined, "", NaN, +Infinity or -Infinity, and otherwise returns
\* the candidate unchanged (0 and false are accepted).
C7_NoneFallback ==
  (last.op = "else" /\ last.obj.type = "None") =>
    LET fb == last.fb
        res == last.res
    IN /\ res.calls = IF fb.fn THEN 1 ELSE 0
       /\ fb.fn => res.arg = Undefined
       /\ (res.outcome = "throw" /\ res.msg = "Fallback must be truthy")
            <=> (~fb.throws /\ fb.ret \in AbsentLike)
       /\ (~fb.throws /\ fb.ret \notin AbsentLike) =>
            (res.outcome = "return" /\ res.val = fb.ret)

C7_Witness ==
  /\ last.op = "else"
  /\ last.obj.type = "None"
  /\ last.fb = FnRet(Num(0))
  /\ last.res.outcome = "return"
  /\ last.res.val = Num(0)

\* C8: on Err, unwrap().else(fallback) returns the literal fallback, or the
\* return of the fallback function invoked exactly once with the error
\* payload; no truthiness check: 0, "", false and null come back as given.
C8_ErrFallback ==
  (last.op = "else" /\ last.obj.type = "Err") =>
    LET fb == last.fb
        res == last.res
    IN /\ res.calls = IF fb.fn THEN 1 ELSE 0
       /\ fb.fn => res.arg = last.obj.error
       /\ ~fb.throws => (res.outcome = "return" /\ res.val = fb.ret)

C8_Witness ==
  /\ last.op = "else"
  /\ last.obj.type = "Err"
  /\ last.fb = Lit(Null)
  /\ last.res.outcome = "return"
  /\ last.res.val = Null

\* C9: expect(msg) on an Option returns the payload on Some for every msg; on
\* None it fails with msg when msg is given and with "Expected Some, got
\* None" when it is not.
C9_OptionExpect ==
  (last.op = "expect" /\ IsOption(last.obj)) =>
    LET o == last.obj
        msg == last.arg
    IN IF o.type = "Some"
         THEN last.res.outcome = "return" /\ last.res.val = o.value
         ELSE /\ last.res.outcome = "throw"
              /\ last.res.msg = IF msg = Undefined THEN "Expected Some, got None"
                                ELSE msg.s

C9_Witness ==
  /\ last.op = "expect"
  /\ last.obj.type = "None"
  /\ last.arg = Str("")
  /\ last.res.outcome = "throw"
  /\ last.res.msg = ""

\* C10: expect(msg) on a Result returns the payload on Ok; on Err it fails
\* with msg when msg is given, and otherwise with the payload itself if it is
\* a string, the string form of its message field if it is an object with
\* one, and "Expected Ok, got Err" in every other case.
C10_ResultExpect ==
  (last.op = "expect" /\ IsResult(last.obj)) =>
    LET o == last.obj
        msg == last.arg
    IN IF o.type = "Ok"
         THEN last.res.outcome = "return" /\ last.res.val = o.value
         ELSE /\ last.res.outcome = "throw"
              /\ last.res.msg = IF msg = Undefined THEN DerivedMessage(o.error)
                                ELSE msg.s

C10_Witness ==
  /\ last.op = "expect"
  /\ last.obj = Err(ObjMsgNum(7))
  /\ last.arg = Undefined
  /\ last.res.outcome = "throw"
  /\ last.res.msg = "7"

\* the conversion target is one of the three the library supports
ValidTarget(t) == t \in {"option", "atom", "result"}

\* o is an Ok or an Err
IsResultObject(o) == ~IsJs(o) /\ o.type \in {"Ok", "Err"}

\* o is an atom as atom() returns it
IsAtomValue(o) == IsJs(o) /\ o.t = "symobj"

\* o is an Option object as option() returns it
IsOptionObject(o) == ~IsJs(o) /\ o.type \in {"Some", "None"} /\ o.methods

\* the atoms among the objects made so far
AtomsMade == {i \in 1..Len(objs) : IsAtomValue(objs[i])}

\* C11: to("result") on Some(v) is Ok(v), on None it is Err("Value is None"),
\* and on an atom with description d it is Ok(d).
C11_ToResult ==
  (last.op = "to" /\ last.arg = "result") =>
    LET o == last.obj
        r == last.res
    IN /\ r.outcome = "return"
       /\ IF IsAtomValue(o)
            THEN r.val.type = "Ok" /\ r.val.isOk /\ ~r.val.isErr /\ r.val.value = Str(o.s)
          ELSE IF o.type = "Some"
            THEN r.val.type = "Ok" /\ r.val.isOk /\ ~r.val.isErr /\ r.val.value = o.value
          ELSE /\ r.val.type = "Err" /\ r.val.isErr /\ ~r.val.isOk
               /\ r.val.error = Str("Value is None")

C11_Witness ==
  /\ last.op = "to"
  /\ last.arg = "result"
  /\ IsOptionObject(last.obj)
  /\ last.obj.type = "None"
  /\ last.res.outcome = "return"
  /\ last.res.val.type = "Err"

\* C12 as stated: for every atom a with description d, a.to("option") is
\* Some(d).
C12_Original ==
  (last.op = "to" /\ IsAtomValue(last.obj) /\ last.arg = "option") =>
    /\ last.res.outcome = "return"
    /\ last.res.val.type = "Some"
    /\ last.res.val.isSome
    /\ last.res.val.value = Str(last.obj.s)

\* C12, amended: for every atom a with a non-empty description d,
\* a.to("option") is Some(d); for the atom with the empty description it is
\* None.
C12_AtomToOption ==
  (last.op = "to" /\ IsAtomValue(last.obj) /\ last.arg = "option") =>
    LET r == last.res
    IN /\ r.outcome = "return"
       /\ IF last.obj.s # ""
            THEN r.val.type = "Some" /\ r.val.isSome /\ ~r.val.isNone
                 /\ r.val.value = Str(last.obj.s)
            ELSE r.val.type = "None" /\ r.val.isNone /\ ~r.val.isSome

C12_Witness ==
  /\ last.op = "to"
  /\ last.obj = SymObj("ready", 1)
  /\ last.arg = "option"
  /\ last.res.outcome = "return"
  /\ last.res.val.type = "Some"
  /\ last.res.val.value = Str("ready")

\* C13: conversion to the value's own kind is the identity: option(v)
\* .to("option") returns the very Option object it was called on (with its
\* methods), and a.to("atom") returns the very atom a it was called on.
C13_SelfConversionIsIdentity ==
  /\ (last.op = "to" /\ IsOptionObject(last.obj) /\ last.arg = "option") =>
       (last.res.outcome = "return" /\ last.res.val = last.obj)
  /\ (last.op = "to" /\ IsAtomValue(last.obj) /\ last.arg = "atom") =>
       (last.res.outcome = "return" /\ last.res.val = last.obj)

\* C14: to("atom") on Some whose payload is a string s returns an atom with
\* description s; on None it fails with "Cannot convert None to Atom"; on
\* Some whose payload is not a string it fails; no atom is made on failure.
C14_OptionToAtom ==
  (last.op = "to" /\ IsOptionObject(last.obj) /\ last.arg = "atom") =>
    LET o == last.obj
        r == last.res
    IN IF o.type = "Some" /\ o.value.t = "str"
         THEN /\ r.outcome = "return"
              /\ IsAtomValue(r.val)
              /\ r.val.s = o.value.s
              /\ last.made = <<r.val>>
         ELSE /\ r.outcome = "throw"
              /\ last.made = <<>>
              /\ o.type = "None" => r.msg = "Cannot convert None to Atom"

C14_Witness ==
  /\ last.op = "to"
  /\ IsOptionObject(last.obj)
  /\ last.obj.type = "Some"
  /\ last.obj.value = Num(0)
  /\ last.arg = "atom"
  /\ last.res.outcome = "throw"
  /\ last.made = <<>>

\* C15: converting an Ok or an Err to "option", "atom" or "result" always
\* fails with "Cannot convert a Result to any other type" and returns nothing.
C15_ResultNeverConverts ==
  (last.op = "_to" /\ IsResultObject(last.obj) /\ ValidTarget(last.arg)) =>
    /\ last.res.outcome = "throw"
    /\ last.res.msg = "Cannot convert a Result to any other type"
    /\ last.res.val = Undefined
    /\ last.made = <<>>

C15_Witness ==
  /\ last.op = "_to"
  /\ last.obj = Err(Str("x"))
  /\ last.arg = "result"
  /\ last.res.outcome = "throw"
  /\ last.res.msg = "Cannot convert a Result to any other type"

\* C16: any two atoms made by different atom() calls are not identity-equal
\* (neither the atoms nor their symbols), also when their descriptions are
\* the same; an atom is identity-equal only to itself; an atom's description
\* is the string it was created with.
C16_AtomsAreFresh ==
  /\ \A i, j \in AtomsMade :
       /\ (objs[i] = objs[j]) <=> (i = j)
       /\ i # j => objs[i].n # objs[j].n
  /\ last.op = "atom" =>
       /\ objs[Len(objs)] = last.obj
       /\ IsAtomValue(last.obj)
       /\ last.obj.s = last.arg
  /\ (last.op = "to" /\ last.arg = "atom" /\ last.made # <<>>) =>
       /\ objs[Len(objs)] = last.made[1]
       /\ last.made[1].s = last.obj.value.s

C16_Witness ==
  \E i, j \in AtomsMade :
    /\ i # j
    /\ objs[i].s = objs[j].s
    /\ objs[i] # objs[j]

\* the values the specification says matchAll supports
SupportedValue(v) ==
  v.t \in {"str", "num", "nan", "inf", "ninf", "bool", "sym", "symobj"}

\* the key the specification derives from a supported value
DerivedKey(v) ==
  CASE v.t \in {"sym", "symobj"} -> v.s
    [] v.t = "str" -> v.s
    [] v.t = "num" -> ToString(v.n)
    [] v.t = "bool" -> (IF v.n = 1 THEN "true" ELSE "false")
    [] v.t = "nan" -> "NaN"
    [] v.t = "inf" -> "Infinity"
    [] OTHER -> "-Infinity"

\* the messages that start with "Unsupported match all value type"
UnsupportedMessages ==
  {"Unsupported match all value type: " \o t :
     t \in {"object", "function", "undefined", "string", "number", "boolean", "symbol"}}

\* C17: match on an Option or Result invokes exactly one handler, the one
\* under the value's tag, once, with the full tagged value, and returns its
\* result; with no handler for the tag it fails with "Non-exhaustive match --
\* missing handler for '<tag>'" and invokes no handler.
C17_MatchDispatch ==
  (last.op = "match" /\ last.obj.type \in TagKeys) =>
    LET o == last.obj
    IN IF o.type \in last.patterns.own
         THEN /\ last.invoked = <<Invocation(o.type, o, FALSE)>>
              /\ last.res.outcome = "return"
              /\ last.res.val = HandlerReturn(o.type)
         ELSE /\ last.invoked = <<>>
              /\ last.res.outcome = "throw"
              /\ last.res.msg =
                   "Non-exhaustive match -- missing handler for '" \o o.type \o "'"

C17_Witness ==
  /\ last.op = "match"
  /\ last.obj = Err(Str("x"))
  /\ last.patterns.own = {"Ok", "Err"}
  /\ last.invoked = <<Invocation("Err", Err(Str("x")), FALSE)>>
  /\ last.res.val = HandlerReturn("Err")

\* C18: for every supported value (string, number, boolean, atom) whose
\* derived key is not a key the caller supplied, matchAll invokes patterns._
\* and returns its result, and invokes no other handler.
C18_UnmatchedFallsBack ==
  ( /\ last.op = "matchAll"
    /\ SupportedValue(last.obj)
    /\ "_" \in last.patterns.own
    /\ DerivedKey(last.obj) \notin last.patterns.own ) =>
    /\ last.invoked = <<Invocation("_", Undefined, FALSE)>>
    /\ last.res.outcome = "return"
    /\ last.res.val = HandlerReturn("_")

\* C19: matchAll derives its key as the description of an atom, the string
\* form of a number or boolean, the string itself; when the caller supplied
\* an entry for that key, that entry is invoked once with the original
\* value and its result is returned.
C19_MatchAllKeyed ==
  ( /\ last.op = "matchAll"
    /\ SupportedValue(last.obj)
    /\ DerivedKey(last.obj) \in last.patterns.own ) =>
    /\ last.invoked = <<Invocation(DerivedKey(last.obj), last.obj, FALSE)>>
    /\ last.res.outcome = "return"
    /\ last.res.val = HandlerReturn(DerivedKey(last.obj))

C19_Witness ==
  /\ last.op = "matchAll"
  /\ last.obj = SymObj("x", 1)
  /\ "x" \in last.patterns.own
  /\ last.invoked = <<Invocation("x", SymObj("x", 1), FALSE)>>
  /\ last.res.val = HandlerReturn("x")

\* C20: matchAll fails with a message starting "Unsupported match all value
\* type" for every value that is not a string, number, boolean or atom, and
\* then invokes no handler, not even patterns._ (patterns carrying the
\* mandatory _ entry).
C20_UnsupportedFails ==
  ( /\ last.op = "matchAll"
    /\ ~SupportedValue(last.obj)
    /\ "_" \in last.patterns.own ) =>
    /\ last.res.outcome = "throw"
    /\ last.res.msg \in UnsupportedMessages
    /\ last.invoked = <<>>

\* the values of the entries whose key is in keys, as they are written
ValuesUnder(input, keys) ==
  LET chosen == SelectSeq(input.entries, LAMBDA en : en[1] \in keys)
  IN [i \in 1..Len(chosen) |-> chosen[i][2]]

\* the elements a collection contributes: an array's or a Set's elements, a
\* record's values (those under "0", "1", "2", ... first, then the others)
ElementsOf(input) ==
  IF input.kind = "record"
    THEN LET keys == {input.entries[i][1] : i \in 1..Len(input.entries)}
         IN ValuesUnder(input, {"0"}) \o ValuesUnder(input, {"1"})
              \o ValuesUnder(input, {"2"}) \o ValuesUnder(input, {"3"})
              \o ValuesUnder(input, keys \ {"0", "1", "2", "3"})
    ELSE input.items

\* the first n elements of xs, f standing in past its end
PaddedTo(xs, n, f) == [i \in 1..n |-> IF i <= Len(xs) THEN xs[i] ELSE f]

\* the lengths of the collections of the last call
LastLengths == {Len(ElementsOf(last.inputs[k])) : k \in 1..Len(last.inputs)}

\* the number of rows zip() owes for the last call
RowsOwed ==
  IF LastLengths = {} THEN 0
  ELSE IF last.options.fillValue = Undefined
    THEN CHOOSE m \in LastLengths : \A l \in LastLengths : m <= l
    ELSE CHOOSE m \in LastLengths : \A l \in LastLengths : l <= m

AllArrays == \A k \in 1..Len(last.inputs) : last.inputs[k].kind = "array"

\* C21: zip(inputs, options) returns rows where row i holds, in input order,
\* the i-th element of each input; without fillValue there are as many rows
\* as the shortest input has elements, with a fillValue (0 and null too) as
\* many as the longest has, the inputs that ended contributing fillValue; no
\* inputs give no rows.
C21_ZipRows ==
  (last.op = "zip" /\ last.res.outcome = "return") =>
    LET rows == last.res.val
    IN /\ Len(rows) = RowsOwed
       /\ \A i \in 1..Len(rows) :
            /\ Len(rows[i]) = Len(last.inputs)
            /\ \A k \in 1..Len(last.inputs) :
                 rows[i][k] = IF i <= Len(ElementsOf(last.inputs[k]))
                                THEN ElementsOf(last.inputs[k])[i]
                                ELSE last.options.fillValue

C21_Witness ==
  /\ last.op = "zip"
  /\ last.inputs = <<ArrayOf(<<Num(1), Num(1)>>), ArrayOf(<<Num(1)>>)>>
  /\ last.options.fillValue = Num(0)
  /\ last.res = Ret(<< <<Num(1), Num(1)>>, <<Num(1), Num(0)>> >>)

\* the rows behind the results of the last call
LastRows ==
  IF last.op = "zipWith"
    THEN [i \in 1..Len(last.res.val) |-> last.res.val[i].applied]
    ELSE last.res.val

\* C22: with includeValues false or omitted, zip and zipWith fail with "Only
\* arrays allowed when includeValues=false" as soon as one input is a Set or
\* a record, whatever the other inputs, and give no output; with
\* includeValues true a Set contributes its elements and a record its values.
C22_NonArraysNeedIncludeValues ==
  (last.op \in {"zip", "zipWith"} /\ ~AllArrays) =>
    IF last.options.includeValues = Bool(TRUE)
      THEN /\ last.res.outcome = "return"
           /\ \A i \in 1..Len(LastRows), k \in 1..Len(last.inputs) :
                i <= Len(ElementsOf(last.inputs[k])) =>
                  LastRows[i][k] = ElementsOf(last.inputs[k])[i]
      ELSE /\ last.res.outcome = "throw"
           /\ last.res.msg = "Only arrays allowed when includeValues=false"
           /\ last.res.val = Undefined
           /\ last.invoked = <<>>

C22_Witness ==
  /\ last.op = "zip"
  /\ last.inputs = <<ArrayOf(<<Num(0)>>), SetOf(<<Num(1), Num(0)>>)>>
  /\ Len(last.inputs[2].items) = 2
  /\ last.options.includeValues = Undefined
  /\ last.res.outcome = "throw"
  /\ last.res.msg = "Only arrays allowed when includeValues=false"

\* row i of what zip() owes for the last call: the i-th element of each
\* collection, fillValue for those that have ended
RowOwed(i) ==
  [k \in 1..Len(last.inputs) |->
     IF i <= Len(ElementsOf(last.inputs[k]))
       THEN ElementsOf(last.inputs[k])[i] ELSE last.options.fillValue]

\* C23: zipWith(inputs, fn, options) is zip(inputs, options) with fn applied
\* to each row in order: as many results as zip has rows, result i being
\* fn(row i), the row its only argument; when zip fails, zipWith fails the
\* same way and fn is never invoked.
C23_ZipWithIsZipThenMap ==
  last.op = "zipWith" =>
    IF ~AllArrays /\ last.options.includeValues # Bool(TRUE)
      THEN /\ last.res.outcome = "throw"
           /\ last.res.msg = "Only arrays allowed when includeValues=false"
           /\ last.invoked = <<>>
      ELSE /\ last.res.outcome = "return"
           /\ Len(last.res.val) = RowsOwed
           /\ Len(last.invoked) = RowsOwed
           /\ \A i \in 1..RowsOwed :
                /\ last.invoked[i].arg[1] = RowOwed(i)
                /\ last.res.val[i] = Applied(last.fn, <<RowOwed(i)>>)

\* column c of the rows: the c-th element of every row that has one
ColumnOf(rows, c) ==
  LET having == SelectSeq(rows, LAMBDA row : Len(row) >= c)
  IN [j \in 1..Len(having) |-> having[j][c]]

\* C24: unzip(rows) returns as many columns as the first row has elements,
\* column c being the c-th element of every row that has one, in row order;
\* shorter rows contribute nothing past their end, the elements of longer
\* rows past the first row's length are dropped, no shape of rows fails, and
\* no rows give no columns.
C24_UnzipColumns ==
  last.op = "unzip" =>
    /\ last.res.outcome = "return"
    /\ IF last.inputs = <<>>
         THEN last.res.val = <<>>
         ELSE /\ Len(last.res.val) = Len(last.inputs[1])
              /\ \A c \in 1..Len(last.res.val) :
                   last.res.val[c] = ColumnOf(last.inputs, c)

C24_Witness ==
  /\ last.op = "unzip"
  /\ last.inputs = << <<Num(0)>>, <<Num(1), Num(0)>>, <<>> >>
  /\ last.res.val = << <<Num(0), Num(1)>> >>

\* C25, as stated: unzip(zip([A, B])) without fillValue is A and B cut to
\* the shorter length, and unzip(zip(inputs, {fillValue: f})) is the inputs
\* padded with f to the longest length, for all arrays.
C25_Original ==
  ( /\ last.op = "unzip(zip)"
    /\ AllArrays
    /\ last.options.fillValue = Undefined => Len(last.inputs) = 2 ) =>
    /\ last.res.outcome = "return"
    /\ last.res.val =
         [k \in 1..Len(last.inputs) |->
            PaddedTo(ElementsOf(last.inputs[k]), RowsOwed, last.options.fillValue)]

\* C25, amended: the same whenever zip owes at least one row; when it owes
\* none (an empty array among the inputs without fillValue, only empty
\* arrays with one), the round trip gives the empty list.
C25_RoundTrip ==
  ( /\ last.op = "unzip(zip)"
    /\ AllArrays
    /\ last.options.fillValue = Undefined => Len(last.inputs) = 2 ) =>
    /\ last.res.outcome = "return"
    /\ last.res.val =
         IF RowsOwed = 0 THEN <<>>
         ELSE [k \in 1..Len(last.inputs) |->
                 PaddedTo(ElementsOf(last.inputs[k]), RowsOwed,
                          last.options.fillValue)]

C25_Witness ==
  /\ last.op = "unzip(zip)"
  /\ last.inputs = <<ArrayOf(<<Num(1), Num(0)>>), ArrayOf(<<Num(1)>>)>>
  /\ last.options.fillValue = Null
  /\ last.res.val = << <<Num(1), Num(0)>>, <<Num(1), Null>> >>

\* C30: for every non-empty list of rows that all have the same length
\* n >= 1, zip(unzip(rows)) without fillValue is rows.
C30_InverseRoundTrip ==
  ( /\ last.op = "zip(unzip)"
    /\ last.inputs # <<>>
    /\ \E n \in 1..Len(last.inputs[1]) :
         \A r \in 1..Len(last.inputs) : Len(last.inputs[r]) = n ) =>
    last.res = Ret(last.inputs)

C30_Witness ==
  /\ last.op = "zip(unzip)"
  /\ last.inputs = << <<Num(0), Num(1)>>, <<Num(1), Num(1)>>, <<Num(0), Num(0)>> >>
  /\ last.res = Ret(last.inputs)

\* the error safeTry() owes for what fn threw: the Error itself, or an Error
\* whose message is the string form of the payload
OwedError(e, thrown) ==
  IF thrown.t = "error" THEN e = thrown
  ELSE e.t = "error" /\ ~StringThrows(thrown) /\ e.s = StringOf(thrown)

\* C26: safeTry completes with {result: r, error: null} when fn, synchronous
\* or asynchronous, succeeds with r (null, undefined, 0, false and "" too);
\* when fn fails and throw is false or omitted it completes with
\* {result: null, error: e}, e being the thrown Error itself or an Error
\* whose message is the string form of the payload; when fn fails and throw
\* is true it fails with that error; error is non-null exactly when fn
\* failed.
C26_SafeTry ==
  \A p \in 1..Len(objs) :
    LET call == objs[p]
    IN call.res.settled # "pending" =>
         /\ ~call.fn.fails => call.res = Fulfilled(call.fn.payload, Null)
         /\ (call.fn.fails /\ call.throw # Bool(TRUE)) =>
              /\ call.res.settled = "fulfilled"
              /\ call.res.result = Null
              /\ OwedError(call.res.error, call.fn.payload)
         /\ (call.fn.fails /\ call.throw = Bool(TRUE)) =>
              /\ call.res.settled = "rejected"
              /\ OwedError(call.res.reason, call.fn.payload)
         /\ call.res.settled = "fulfilled" =>
              (call.res.error # Null <=> call.fn.fails)

\* the tag and payload an object carries
TagAndPayload(o) ==
  [type |-> o.type,
   payload |-> IF "value" \in DOMAIN o THEN o.value
               ELSE IF "error" \in DOMAIN o THEN o.error ELSE Undefined]

\* C27: every Option and Result is immutable after construction: after any
\* operations on it, attempted writes to its type, value, error and flag
\* fields included, its fields read as constructed, match hands its
\* handlers the tag and payload it was constructed with, and expect() and
\* unwrap().else() return the payload it was constructed with.
C27_Immutable ==
  \A i \in 1..Len(objs) :
    LET made == objs[i].opt
    IN /\ objs[i].self = made
       /\ (last.op = "match" /\ last.res.outcome = "return") =>
            /\ last.invoked[1].key = made.type
            /\ TagAndPayload(last.invoked[1].arg) = TagAndPayload(made)
       /\ (last.op \in {"expect", "else"} /\ made.type \in {"Some", "Ok"}) =>
            last.res = Ret(made.value)

\* a matchAll call invoked the handlers with these keys, each entry other
\* than _ with the value v
SelectedFor(m, v) ==
  \A j \in 1..Len(m.invoked) : m.invoked[j].key # "_" => m.invoked[j].arg = v

\* C28: matchAll's choice of handler depends only on the derived key: two
\* supported values with the same derived key (two distinct atoms with one
\* description; the number 1, the string "1" and an atom described "1"; true
\* and "true") select the same handler under the same patterns, each
\* handler receiving the value of its own call.
C28_KeyDecides ==
  ( /\ last.op = "matchAll pair"
    /\ SupportedValue(last.a)
    /\ SupportedValue(last.b)
    /\ DerivedKey(last.a) = DerivedKey(last.b) ) =>
    /\ last.first.res.outcome = last.second.res.outcome
    /\ Len(last.first.invoked) = Len(last.second.invoked)
    /\ \A j \in 1..Len(last.first.invoked) :
         last.first.invoked[j].key = last.second.invoked[j].key
    /\ SelectedFor(last.first, last.a)
    /\ SelectedFor(last.second, last.b)

C28_Witness ==
  /\ last.op = "matchAll pair"
  /\ last.a = Num(1)
  /\ last.b = SymObj("1", 1)
  /\ last.patterns = Patterns({"1", "_"})
  /\ last.first.invoked = <<Invocation("1", Num(1), FALSE)>>
  /\ last.second.invoked = <<Invocation("1", SymObj("1", 1), FALSE)>>

\* C29: obligations are per unwrap() call, not per value: each handle on an
\* Option or an Err has its own fulfilled flag and its own deferred check;
\* else() on one handle, once or several times, fulfils no other handle, so
\* a handle on which else() was never called before its check raises its
\* failure, and a handle on which it was called raises none.
C29_PerUnwrapObligation ==
  \A h \in 1..Len(handles) :
    handles[h].obj.type # "Ok" =>
      /\ handles[h].check = "pending" =>
           (handles[h].handled <=> handles[h].elseBefore)
      /\ handles[h].check # "pending" =>
           (Threw(h) <=> ~handles[h].elseBefore)
      /\ handles[h].check = "raised" <=>
           \E u \in 1..Len(uncaught) : uncaught[u].h = h

C29_Witness ==
  /\ Len(handles) = 2
  /\ handles[1].obj = handles[2].obj
  /\ handles[1].elseBefore /\ handles[1].check = "noop"
  /\ ~handles[2].elseBefore /\ handles[2].check = "raised"
  /\ \E u \in 1..Len(uncaught) : uncaught[u].h = 2

====
